---- MODULE Spec2Model ----
(***************************************************************************)
(* Model of the MCP command-line client of this repository.  Two versions  *)
(* of the client exist in the source tree: src/unnamed/part_000 (logging,  *)
(* per-tool error handling, direct tool calls) and                         *)
(* src/mcp-client-typescript/index.ts (no error handling).  The variable   *)
(* client says which of the two programs is running.  The weather server  *)
(* of src/weather-server-typescript is the third program of the module; it *)
(* runs as a process of its own, under the specification ServerSpec.       *)
(*                                                                         *)
(* A JavaScript string is a sequence of one-character strings.  The fixed  *)
(* Chinese phrases of the template literals are not representable in a     *)
(* TLA+ string; each is written as one chunk holding an ASCII gloss.       *)
(* A value whose run-time type the code inspects (Array.isArray, typeof)   *)
(* is a record [t |-> type, v |-> payload].  An optional property of an    *)
(* object is a field that is present in the record or not.                 *)
(***************************************************************************)
EXTENDS Integers, Sequences, FiniteSets, TLC

\* ------------------------------------------------------------------ bounds
MaxLines == 2        \* input lines read by chatLoop in one run
MaxToolCalls == 2    \* tool calls in one model response
MaxRetries == 2      \* 429 answers an upstream with a finite number of them gives
MaxRequests == 2     \* tool requests the server receives in one run
MaxFailures == 1     \* unhandled rejections the server process meets in one run

\* ------------------------------------------------------- string primitives
RECURSIVE ToLowerCase(_)
LowerOf(c) ==
    CASE c = "Q" -> "q" [] c = "U" -> "u" [] c = "I" -> "i" [] c = "T" -> "t"
      [] c = "D" -> "d" [] c = "E" -> "e" [] c = "B" -> "b" [] c = "G" -> "g"
      [] c = "N" -> "n" [] c = "F" -> "f" [] c = "O" -> "o" [] c = "L" -> "l"
      [] c = "H" -> "h" [] c = "X" -> "x" [] c = "C" -> "c"
      [] OTHER -> c
ToLowerCase(s) ==
    IF s = <<>> THEN <<>> ELSE <<LowerOf(Head(s))>> \o ToLowerCase(Tail(s))

StartsWith(s, p) == Len(s) >= Len(p) /\ SubSeq(s, 1, Len(p)) = p
EndsWith(s, p) == Len(s) >= Len(p) /\ SubSeq(s, Len(s) - Len(p) + 1, Len(s)) = p
Substring(s, from) == SubSeq(s, from + 1, Len(s))

IsSpace(c) == c \in {" ", "\t", "\n"}
RECURSIVE TrimStart(_)
TrimStart(s) ==
    IF s # <<>> /\ IsSpace(Head(s)) THEN TrimStart(Tail(s)) ELSE s
RECURSIVE TrimEnd(_)
TrimEnd(s) ==
    IF s # <<>> /\ IsSpace(s[Len(s)]) THEN TrimEnd(SubSeq(s, 1, Len(s) - 1)) ELSE s
Trim(s) == TrimEnd(TrimStart(s))

\* s.split(sep) for a one-character separator: the pieces, empty ones included
RECURSIVE SplitFrom(_, _, _)
SplitFrom(s, sep, cur) ==
    IF s = <<>> THEN <<cur>>
    ELSE IF Head(s) = sep THEN <<cur>> \o SplitFrom(Tail(s), sep, <<>>)
    ELSE SplitFrom(Tail(s), sep, Append(cur, Head(s)))
Split(s, sep) == SplitFrom(s, sep, <<>>)

\* a join that ends every part with the separator
RECURSIVE Join_TrailingSeparator(_, _)
Join_TrailingSeparator(parts, sep) ==
    IF parts = <<>> THEN <<>>
    ELSE parts[1] \o sep \o Join_TrailingSeparator(Tail(parts), sep)

\* parts.join(sep)
RECURSIVE Join(_, _)
Join(parts, sep) ==
    IF parts = <<>> THEN <<>>
    ELSE IF Len(parts) = 1 THEN parts[1]
    ELSE parts[1] \o sep \o Join(Tail(parts), sep)

NL == <<"\n">>

\* ------------------------------------------------------------ JSON subset
\* JSON.parse and JSON.stringify on the part of JSON the inputs of this model
\* use: a number of digits, or an object with no member or one member whose
\* value is a number.  Every other text is a SyntaxError here; the payloads
\* the model draws (ArgumentPayloads, the direct-call lines) are texts on
\* which this agrees with JSON.parse.
Digits == {"0", "1", "2", "3", "4", "5", "6", "7", "8", "9"}
IsNumberText(t) ==
    /\ t # <<>>
    /\ \A k \in 1..Len(t) : t[k] \in Digits
    /\ (Len(t) > 1 => t[1] # "0")
SyntaxError == [ok |-> FALSE]
Parsed(v) == [ok |-> TRUE, value |-> v]
JSONNumber(t) == [t |-> "number", v |-> t]
JSONObject(members) == [t |-> "object", v |-> members]
ClosingQuote(t) ==
    IF \E k \in 2..Len(t) : t[k] = "\""
    THEN CHOOSE k \in 2..Len(t) :
             t[k] = "\"" /\ \A j \in 2..(k - 1) : t[j] # "\""
    ELSE 0
ParseMember(inner) ==
    LET q == ClosingQuote(inner)
        rest == TrimStart(SubSeq(inner, q + 1, Len(inner)))
        val == Trim(Tail(rest))
    IN IF inner[1] = "\"" /\ q > 0 /\ rest # <<>> /\ rest[1] = ":"
          /\ IsNumberText(val)
       THEN Parsed(JSONObject(<<[k |-> SubSeq(inner, 2, q - 1),
                                 v |-> JSONNumber(val)]>>))
       ELSE SyntaxError
JSON_parse(s) ==
    LET t == Trim(s)
    IN IF IsNumberText(t) THEN Parsed(JSONNumber(t))
       ELSE IF Len(t) >= 2 /\ t[1] = "{" /\ t[Len(t)] = "}"
       THEN LET inner == Trim(SubSeq(t, 2, Len(t) - 1))
            IN IF inner = <<>> THEN Parsed(JSONObject(<<>>))
               ELSE ParseMember(inner)
       ELSE SyntaxError

RECURSIVE JSON_stringify(_)
RECURSIVE StringifyMembers(_)
StringifyMembers(ms) ==
    IF ms = <<>> THEN <<>>
    ELSE <<"\"">> \o ms[1].k \o <<"\"", ":">> \o JSON_stringify(ms[1].v)
         \o (IF Len(ms) > 1 THEN <<",">> \o StringifyMembers(Tail(ms)) ELSE <<>>)
JSON_stringify(val) ==
    CASE val.t = "number" -> val.v
      [] val.t = "string" -> <<"\"">> \o val.v \o <<"\"">>
      [] val.t = "object" -> <<"{">> \o StringifyMembers(val.v) \o <<"}">>


\* ----------------------------------------------------------------- inputs
Flag_ws == <<"-", "-", "w", "s">>
Flag_websocket == <<"-", "-", "w", "e", "b", "s", "o", "c", "k", "e", "t">>
Flag_sse == <<"-", "-", "s", "s", "e">>
Ext_js == <<".", "j", "s">>
Ext_py == <<".", "p", "y">>
GoodURL == <<"w", "s", ":", "/", "/", "h">>
BadURL == <<"h">>
Script_js == <<"s">> \o Ext_js
Script_py == <<"s">> \o Ext_py
Script_txt == <<"s", ".", "t", "x", "t">>

\* process.argv without the node binary and the script name
ArgvChoices ==
    { <<>>, <<Flag_ws>>, <<Flag_ws, GoodURL>>, <<Flag_ws, BadURL>>,
      <<Flag_websocket, GoodURL>>, <<Flag_sse>>, <<Flag_sse, GoodURL>>,
      <<Script_js>>, <<Script_py>>, <<Script_txt>> }
EnvURLChoices == { <<>>, GoodURL }
LogLevels == {"debug", "info", "warn", "error"}

Echo == <<"e", "c", "h", "o">>
Add == <<"a", "d", "d">>
EmptySchema == JSONObject(<<>>)
ServerTool(n) == [name |-> n, description |-> <<"d">>, inputSchema |-> EmptySchema]
\* a tool without a description: the optional property is absent
ServerToolNoDesc(n) == [name |-> n, inputSchema |-> EmptySchema]
\* ------------------------------------------------------------------ state
VARIABLES
    client,          \* which program runs: "part_000" or "index_ts"
    argv,            \* process.argv.slice(2)
    MCP_SERVER_URL,  \* const read from the environment at load
    LOG_LEVEL,       \* const read from the environment at load (part_000)
    envLogLevel,     \* process.env.LOG_LEVEL
    pc,              \* where the single thread of control of main() is
    transport,       \* this.transport: "null", "stdio", "websocket", "sse"
    transportUrl,    \* the url given to the WebSocket or SSE transport
    command,         \* command given to the stdio transport
    connectState,    \* the promise of mcp.connect(): none, pending, connected, failed
    tools,           \* this.tools
    linesRead,       \* lines chatLoop has read
    message,         \* chatLoop: the line being handled
    messages,        \* processQuery: messages
    finalText,       \* processQuery: finalText
    choice,          \* processQuery: response.choices[0] of the first response
    idx,             \* processQuery: position of the for loop in tool_calls
    toolArgs,        \* processQuery: toolArgs of the current tool call
    pending,         \* requests awaited and not yet settled
    events,          \* requests issued and settled since the last line was read
    console,         \* console.log lines of program output since the last line was read
    unhandled,       \* a promise rejected with nobody handling it
    exited,          \* process.exit was called
    exitCode,        \* its argument
    scenario,        \* the family of runs: "startup", "chat" or "serve" (see Init)
    \* the weather server (src/weather-server-typescript/src/index.ts)
    spc,             \* where the server's control is (main, a handler, makeNWSRequest)
    request,         \* the tool request being served, or the last one served
    stage,           \* the call of makeNWSRequest running: alerts, points, forecast
    url,             \* makeNWSRequest: url
    nwsResponse,     \* makeNWSRequest: response
    timer,           \* the delay of the timer that setTimeout last armed
    waited,          \* milliseconds of timers awaited since the last response arrived
    fetches,         \* calls of fetch within the running makeNWSRequest (saturating)
    lastFetch,       \* the url last given to fetch and the wait before it
    data,            \* the value makeNWSRequest last returned to a handler
    reply,           \* the tool request last answered, with the result sent back
    served,          \* tool requests answered
    upstream,        \* how the NWS API answers: 429 for ever, or a number of times
    stderr,          \* console.error lines of the last step
    failures,        \* unhandled rejections met by the process
    lastFailure      \* the kind of the last process-level failure handled

serverVars == <<spc, request, stage, url, nwsResponse, timer, waited, fetches, lastFetch,
                data, reply, served, upstream, stderr, failures, lastFailure>>
\* what no step of a client changes
procVars == <<client, argv, MCP_SERVER_URL, LOG_LEVEL, scenario, serverVars>>
connVars == <<transport, transportUrl, command, connectState, tools>>
queryVars == <<messages, finalText, choice, idx, toolArgs>>
vars == <<client, argv, MCP_SERVER_URL, LOG_LEVEL, envLogLevel, pc, transport,
          transportUrl, command, connectState, tools, linesRead, message, messages, finalText,
          choice, idx, toolArgs, pending, events, console, unhandled, exited,
          exitCode, scenario, serverVars>>

ToolLists ==
    IF scenario = "startup"
    THEN { <<>>, <<ServerTool(Echo)>>, <<ServerTool(Echo), ServerToolNoDesc(Add)>> }
    ELSE { <<ServerTool(Echo), ServerToolNoDesc(Add)>> }

NoChoice == [none |-> TRUE]
NoArgs == [none |-> TRUE]

\* Two families of runs.  "startup": every command line, environment and tool
\* list, with an operator who only types quit.  "chat": one command line and
\* one tool list, with an operator who types every kind of line the client
\* running distinguishes.
NoRequest == [none |-> TRUE]
NoResponse == [none |-> TRUE]
NoReply == [none |-> TRUE]
NoFetch == [none |-> TRUE]
Undefined == [undefined |-> TRUE]

\* the server process before its main() has run
ServerNotStarted ==
    /\ spc = "main"
    /\ request = NoRequest
    /\ stage = "none"
    /\ url = <<>>
    /\ nwsResponse = NoResponse
    /\ timer = 0
    /\ waited = 0
    /\ fetches = 0
    /\ lastFetch = NoFetch
    /\ data = Undefined
    /\ reply = NoReply
    /\ served = 0
    /\ stderr = <<>>
    /\ failures = 0
    /\ lastFailure = "none"

\* the client process before its main() has run
ClientNotStarted ==
    /\ pc = "main"
    /\ transport = "null"
    /\ transportUrl = <<>>
    /\ command = "none"
    /\ connectState = "none"
    /\ tools = <<>>
    /\ linesRead = 0
    /\ message = <<>>
    /\ messages = <<>>
    /\ finalText = <<>>
    /\ choice = NoChoice
    /\ idx = 0
    /\ toolArgs = NoArgs
    /\ pending = {}
    /\ events = <<>>
    /\ console = <<>>
    /\ unhandled = FALSE
    /\ exited = FALSE
    /\ exitCode = 0

Init ==
    /\ client \in {"part_000", "index_ts"}
    /\ \/ /\ scenario = "startup"
          /\ argv \in ArgvChoices
          /\ MCP_SERVER_URL \in EnvURLChoices
          /\ LOG_LEVEL \in LogLevels
       \/ /\ scenario = "chat"
          /\ argv = <<Script_js>>
          /\ MCP_SERVER_URL = <<>>
          /\ LOG_LEVEL = "debug"
    /\ envLogLevel = LOG_LEVEL
    /\ ClientNotStarted
    /\ ServerNotStarted
    /\ upstream = [mode |-> "budget", left |-> 0]

\* ------------------------------------------------------ requests and events
Issue(req) == [ev |-> "issue", req |-> req]
\* res: the value a request resolved with, or the message of its error
Settle(req, ok, res) == [ev |-> "settle", req |-> req, ok |-> ok, res |-> res]
Done == <<"done">>
ErrMessage == <<"E">>
ReqConnect == [op |-> "connect"]
ReqListTools == [op |-> "listTools"]
ReqClose == [op |-> "close"]
ReqQuestion == [op |-> "question"]
ReqCallTool(n, a) == [op |-> "callTool", name |-> n, arguments |-> a]
\* a first model call that sends no catalog
ReqModelWithTools_NoCatalog(msgs, ts) ==
    [op |-> "model", max_tokens |-> 1000, messages |-> msgs, tools |-> <<>>]
\* the first model call (part_000, lines 247-252)
ReqModelWithTools(msgs, ts) ==
    [op |-> "model", max_tokens |-> 1000, messages |-> msgs, tools |-> ts]
\* a follow-up call that sends the catalog again
ReqModel_WithCatalog(msgs) == ReqModelWithTools(msgs, tools)
\* the follow-up model call (part_000, lines 311-315)
ReqModel(msgs) == [op |-> "model", max_tokens |-> 1000, messages |-> msgs]


\* --------------------------------------------------------- process lifecycle
\* process.exit(code)
ProcessExit(code) ==
    /\ exited' = TRUE
    /\ exitCode' = code
    /\ pc' = "exited"
    /\ pending' = {}

\* cleanup() up to its await: mcp.close() is called
BeginCleanupFrom(evs) ==
    /\ pc' = "await_close"
    /\ pending' = {ReqClose}
    /\ events' = Append(evs, Issue(ReqClose))
    /\ UNCHANGED <<exited, exitCode>>
BeginCleanup == BeginCleanupFrom(events)

\* An error thrown inside the try block of main().  part_000: the catch block
\* calls process.exit(1).  index_ts: there is no catch, the finally block runs.
ThrowInMain ==
    IF client = "part_000"
    THEN ProcessExit(1) /\ UNCHANGED events
    ELSE BeginCleanup

\* new URL(s) accepts an absolute URL: a scheme, then a colon
IsValidURL(u) ==
    \E k \in 2..Len(u) :
        u[k] = ":" /\ \A j \in 1..(k - 1) : u[j] \notin {":", "/", "-", "."}

TransportFor(mode) ==
    IF mode = "websocket" THEN "websocket"
    ELSE IF mode = "sse" THEN "sse"
    ELSE "null"

\* mcp.connect(transport) is called and not awaited; listTools() is awaited
ConnectAndList ==
    /\ connectState' = "pending"
    /\ pending' = {ReqListTools}
    /\ events' = events \o <<Issue(ReqConnect), Issue(ReqListTools)>>
    /\ pc' = "await_listTools"
    /\ UNCHANGED <<exited, exitCode>>

connectToRemoteServer(serverUrl, mode) ==
    IF ~IsValidURL(serverUrl) \/ TransportFor(mode) = "null"
    THEN ThrowInMain /\ UNCHANGED <<transport, transportUrl, command, connectState>>
    ELSE /\ transport' = TransportFor(mode)
         /\ transportUrl' = serverUrl
         /\ ConnectAndList
         /\ UNCHANGED command

\* connectToServer without the test of the extension: any other script is
\* started with the Node runtime
connectToServer_AnyScript(serverScriptPath) ==
    /\ command' = IF EndsWith(serverScriptPath, Ext_py)
                  THEN "python3" ELSE "process.execPath"
    /\ transport' = "stdio"
    /\ ConnectAndList
    /\ UNCHANGED transportUrl
\* process.platform is not "win32" in this model
connectToServer(serverScriptPath) ==
    LET isJs == EndsWith(serverScriptPath, Ext_js)
        isPy == EndsWith(serverScriptPath, Ext_py)
    IN IF ~isJs /\ ~isPy
       THEN ThrowInMain /\ UNCHANGED <<transport, transportUrl, command, connectState>>
       ELSE /\ command' = IF isPy THEN "python3" ELSE "process.execPath"
            /\ transport' = "stdio"
            /\ ConnectAndList
            /\ UNCHANGED transportUrl

\* a test that takes the URL of the environment as set in every run
HasServerURL_Always == TRUE
\* if (MCP_SERVER_URL)
HasServerURL == MCP_SERVER_URL # <<>>

main ==
    /\ pc = "main"
    /\ IF Len(argv) < 1
       THEN IF HasServerURL
            THEN connectToRemoteServer(MCP_SERVER_URL, "websocket")
            ELSE BeginCleanup /\ UNCHANGED <<transport, transportUrl, command, connectState>>
       ELSE IF argv[1] = Flag_ws \/ argv[1] = Flag_websocket
            THEN IF Len(argv) < 2
                 THEN ThrowInMain /\ UNCHANGED <<transport, transportUrl, command, connectState>>
                 ELSE connectToRemoteServer(argv[2], "websocket")
       ELSE IF argv[1] = Flag_sse
            THEN IF Len(argv) < 2
                 THEN ThrowInMain /\ UNCHANGED <<transport, transportUrl, command, connectState>>
                 ELSE connectToRemoteServer(argv[2], "sse")
       ELSE connectToServer(argv[1])
    /\ console' = IF Len(argv) < 1 THEN Append(console, <<"usage">>) ELSE console
    /\ UNCHANGED <<procVars, envLogLevel, tools, linesRead, message, queryVars,
                   unhandled>>

\* The promise of mcp.connect() settles; nobody awaits it.  The handshake is
\* taken to settle before the operator's first line is handled (ReadLine).
connectResolved ==
    /\ connectState = "pending"
    /\ ~exited
    /\ connectState' = "connected"
    /\ events' = Append(events, Settle(ReqConnect, TRUE, Done))
    /\ UNCHANGED <<procVars, envLogLevel, pc, transport, transportUrl, command, tools, linesRead,
                   message, queryVars, pending, console, unhandled, exited, exitCode>>

\* A rejection nobody handles ends the process with exit code 1 (Node.js 18
\* or later, README line 103).
UnhandledRejection ==
    /\ unhandled' = TRUE
    /\ ProcessExit(1)

connectRejected ==
    /\ connectState = "pending"
    /\ ~exited
    /\ connectState' = "failed"
    /\ UnhandledRejection
    /\ events' = Append(events, Settle(ReqConnect, FALSE, ErrMessage))
    /\ UNCHANGED <<procVars, envLogLevel, transport, transportUrl, command, tools, linesRead,
                   message, queryVars, console>>

\* toolsResult.tools.map(...)
ToChatCompletionTool(tool) ==
    IF "description" \in DOMAIN tool
    THEN [type |-> "function",
          function |-> [name |-> tool.name, description |-> tool.description,
                        parameters |-> tool.inputSchema]]
    ELSE [type |-> "function",
          function |-> [name |-> tool.name, parameters |-> tool.inputSchema]]
\* a map that turns the list around
MapTools_Reversed(list) ==
    [k \in 1..Len(list) |-> ToChatCompletionTool(list[Len(list) + 1 - k])]
MapTools(list) == [k \in 1..Len(list) |-> ToChatCompletionTool(list[k])]

\* chatLoop() up to its first await: the prompt is shown
BeginPrompt ==
    /\ pc' = "await_question"
    /\ pending' = {ReqQuestion}

listToolsResolved ==
    /\ pc = "await_listTools"
    /\ \E list \in ToolLists :
        /\ tools' = MapTools(list)
        /\ events' = Append(events, Settle(ReqListTools, TRUE, list))
    /\ BeginPrompt
    /\ UNCHANGED <<procVars, envLogLevel, transport, transportUrl, command, connectState, linesRead,
                   message, queryVars, console, unhandled, exited, exitCode>>

listToolsRejected ==
    /\ pc = "await_listTools"
    /\ IF client = "part_000"
       THEN ProcessExit(1) /\ events' = Append(events, Settle(ReqListTools, FALSE, ErrMessage))
       ELSE BeginCleanupFrom(Append(events, Settle(ReqListTools, FALSE, ErrMessage)))
    /\ UNCHANGED <<procVars, envLogLevel, connVars, linesRead, message, queryVars,
                   console, unhandled>>

\* cleanup() after mcp.close() settled, then the rest of the finally block
closeResolved ==
    /\ pc = "await_close"
    /\ events' = Append(events, Settle(ReqClose, TRUE, Done))
    /\ ProcessExit(0)
    /\ UNCHANGED <<procVars, envLogLevel, connVars, linesRead, message, queryVars,
                   console, unhandled>>

\* part_000 catches the error of close(); index_ts lets it leave main()
closeRejected ==
    /\ pc = "await_close"
    /\ events' = Append(events, Settle(ReqClose, FALSE, ErrMessage))
    /\ IF client = "part_000"
       THEN ProcessExit(0) /\ UNCHANGED unhandled
       ELSE UnhandledRejection
    /\ UNCHANGED <<procVars, envLogLevel, connVars, linesRead, message, queryVars,
                   console>>


\* ------------------------------------------------------ provider and server
Hello == <<"h", "e", "l", "l", "o">>
Args_x1 == <<"{", "\"", "x", "\"", ":", "1", "}">>
Args_bad == <<"{", "b", "a", "d">>
SyntaxErrorMessage == <<"SyntaxError">>

ToolCallFunctions ==
    { [type |-> "function", function |-> [name |-> Echo, arguments |-> Args_x1]],
      [type |-> "function", function |-> [name |-> Add, arguments |-> <<>>]],
      [type |-> "function", function |-> [name |-> Add, arguments |-> Args_bad]],
      [type |-> "other", function |-> [name |-> Echo, arguments |-> <<"{", "}">>]] }

\* the provider gives every tool call of one response its own id
CallId(k) == <<"c", "a", "l", "l", "_">> \o <<ToString(k)>>
WithId(f, k) == [id |-> CallId(k), type |-> f.type, function |-> f.function]
ToolCallBatches ==
    UNION { { [k \in 1..n |-> WithId(fs[k], k)] : fs \in [1..n -> ToolCallFunctions] }
            : n \in 1..MaxToolCalls }

\* choices[0].message of a response; content and tool_calls are optional
AssistantMessages ==
    { [role |-> "assistant"], [role |-> "assistant", content |-> Hello] }
    \cup { [role |-> "assistant", tool_calls |-> b] : b \in ToolCallBatches }
    \cup { [role |-> "assistant", content |-> Hello, tool_calls |-> b] :
             b \in ToolCallBatches }
FirstResponses ==
    { [choices |-> <<>>] } \cup { [choices |-> <<[message |-> m]>>] : m \in AssistantMessages }
\* a follow-up response may ask for a tool again
Sub == <<"s", "u", "b">>
FollowUpToolCalls ==
    <<WithId([type |-> "function", function |-> [name |-> Sub, arguments |-> Args_x1]], 1)>>
FollowUpResponses ==
    { [choices |-> <<>>],
      [choices |-> <<[message |-> [role |-> "assistant", content |-> Hello]]>>],
      [choices |-> <<[message |-> [role |-> "assistant",
                                   tool_calls |-> FollowUpToolCalls]]>>] }

RC_Array == [t |-> "array", v |-> <<[type |-> "text", text |-> <<"r">>], [type |-> "image"]>>]
RC_String == [t |-> "string", v |-> <<"s">>]
RC_Object == JSONObject(<<[k |-> <<"x">>, v |-> JSONNumber(<<"1">>)]>>)
ToolResults == { [content |-> RC_Array], [content |-> RC_String], [content |-> RC_Object] }

\* the operator's lines
Line_quit == <<"q", "u", "i", "t">>
Line_Quit == <<"Q", "u", "i", "T">>
Line_hi == <<"h", "i">>
Line_debug == <<"D", "e", "b", "u", "g">>
Line_info == <<"i", "n", "f", "o">>
Prefix_tool == <<"t", "o", "o", "l", ":">>
Line_tool_echo == Prefix_tool \o Echo \o <<" ">> \o Args_x1
Line_tool_add == Prefix_tool \o <<" ">> \o Add
Line_tool_bad == Prefix_tool \o Add \o <<" ">> \o Args_bad
\* index_ts knows no command but quit: every other line is a query
Lines ==
    IF scenario = "startup" THEN {Line_quit, Line_Quit}
    ELSE IF client = "index_ts" THEN {Line_quit, Line_Quit, Line_hi, Line_tool_echo}
    ELSE {Line_quit, Line_Quit, Line_hi, Line_debug, Line_info, Line_tool_echo,
          Line_tool_add, Line_tool_bad}

\* value || fallback, and if (value), for an optional string property
Truthy(rec, field) == field \in DOMAIN rec /\ rec[field] # <<>>


\* ------------------------------------------------------------ text literals
\* `[...] tool ${toolName} call failed: ${message}` (part_000, line 326)
ErrorLine(toolName, msg) ==
    <<"[Error] tool ">> \o toolName \o <<" call failed: ">> \o msg
\* `[calling tool ${toolName}, arguments: ${JSON.stringify(toolArgs)}]`
CallMarker(toolName, args) ==
    <<"[Calling tool ">> \o toolName \o <<", arguments: ">> \o JSON_stringify(args) \o <<"]">>
\* `error while processing the query: ${message}` (part_000, line 342)
QueryErrorText(msg) == <<"Error while processing query: ">> \o msg
\* directToolCall's two results (part_000, lines 356 and 364)
DirectResultText(toolName, text) ==
    <<"Tool ">> \o toolName \o <<" call result:">> \o NL \o text
DirectFailText(toolName, msg) ==
    <<"Calling tool ">> \o toolName \o <<" failed: ">> \o msg

\* JSON.stringify(value, null, 2)
JSON_stringify_indent(val) ==
    IF val.t = "object" /\ val.v # <<>>
    THEN <<"{">> \o NL \o <<" ", " ", "\"">> \o val.v[1].k \o <<"\"", ":", " ">>
         \o JSON_stringify(val.v[1].v) \o NL \o <<"}">>
    ELSE JSON_stringify(val)

ItemText(item) == IF Truthy(item, "text") THEN item.text ELSE <<>>
\* the conditional expression of part_000, lines 301-305
NormalizeContent(content) ==
    IF content.t = "array"
    THEN Join([k \in 1..Len(content.v) |-> ItemText(content.v[k])], NL)
    ELSE IF content.t = "string" THEN content.v
    ELSE JSON_stringify(content)
\* the same expression of directToolCall, lines 356-360
NormalizeContentDirect(content) ==
    IF content.t = "array"
    THEN Join([k \in 1..Len(content.v) |-> ItemText(content.v[k])], NL)
    ELSE IF content.t = "string" THEN content.v
    ELSE JSON_stringify_indent(content)

\* a tool message that carries the tool's name where the call's id belongs
ToolMessage_NameAsId(toolCall, result) ==
    [role |-> "tool", tool_call_id |-> toolCall.function.name,
     name |-> toolCall.function.name,
     content |-> IF client = "part_000" THEN NormalizeContent(result.content)
                 ELSE result.content]

\* index_ts stores result.content as it is (a type assertion converts nothing)
ToolMessage(toolCall, result) ==
    [role |-> "tool", tool_call_id |-> toolCall.id, name |-> toolCall.function.name,
     content |-> IF client = "part_000" THEN NormalizeContent(result.content)
                 ELSE result.content]

\* ---------------------------------------------------------------- chatLoop
\* a comparison that is sensitive to letter case
IsCommand_CaseSensitive(line, word) == line = word
IsCommand(line, word) == ToLowerCase(line) = word
IsQuit(line) == IsCommand(line, <<"q", "u", "i", "t">>)
IsDebug(line) == client = "part_000" /\ IsCommand(line, <<"d", "e", "b", "u", "g">>)
IsInfo(line) == client = "part_000" /\ IsCommand(line, <<"i", "n", "f", "o">>)
IsDirect(line) == client = "part_000" /\ StartsWith(line, Prefix_tool)

\* The question settled with a line: locals of the last iteration are gone.
\* The operator's line arrives after the promise of mcp.connect() has settled.
ReadLine(line) ==
    /\ pc = "await_question"
    /\ connectState # "pending"
    /\ linesRead < MaxLines
    /\ line \in Lines
    /\ message' = line
    /\ linesRead' = linesRead + 1

FreshLocals ==
    /\ messages' = <<>>
    /\ finalText' = <<>>
    /\ choice' = NoChoice
    /\ idx' = 0
    /\ toolArgs' = NoArgs

\* break; rl.close(); back in main() the finally block runs cleanup()
chatLoop_quit ==
    \E line \in Lines :
        /\ ReadLine(line)
        /\ IsQuit(line)
        /\ FreshLocals
        /\ BeginCleanupFrom(<<>>)
        /\ console' = <<>>
        /\ UNCHANGED <<procVars, envLogLevel, connVars, unhandled>>

chatLoop_debug ==
    \E line \in Lines :
        /\ ReadLine(line)
        /\ ~IsQuit(line) /\ IsDebug(line)
        /\ envLogLevel' = "debug"
        /\ FreshLocals
        /\ BeginPrompt
        /\ events' = <<>>
        /\ console' = <<<<"debug mode on">>>>
        /\ UNCHANGED <<procVars, connVars, unhandled, exited, exitCode>>

chatLoop_info ==
    \E line \in Lines :
        /\ ReadLine(line)
        /\ ~IsQuit(line) /\ ~IsDebug(line) /\ IsInfo(line)
        /\ envLogLevel' = "info"
        /\ FreshLocals
        /\ BeginPrompt
        /\ events' = <<>>
        /\ console' = <<<<"standard mode on">>>>
        /\ UNCHANGED <<procVars, connVars, unhandled, exited, exitCode>>

\* chatLoop lines 397-407: tool name and arguments of a direct call
\* the prefix cut one character short
ToolParts_ShortPrefix(line) == Split(Trim(Substring(line, 4)), " ")
ToolParts(line) == Split(Trim(Substring(line, 5)), " ")
DirectToolName(line) == ToolParts(line)[1]
\* text that does not parse handed to the tool as a string
DirectArgs_Raw(line) ==
    LET toolParts == ToolParts(line)
        parsed == JSON_parse(Join(Tail(toolParts), <<" ">>))
    IN IF Len(toolParts) > 1
       THEN (IF parsed.ok THEN parsed.value
             ELSE [t |-> "string", v |-> Join(Tail(toolParts), <<" ">>)])
       ELSE JSONObject(<<>>)
DirectArgs(line) ==
    LET toolParts == ToolParts(line)
        parsed == JSON_parse(Join(Tail(toolParts), <<" ">>))
    IN IF Len(toolParts) > 1 /\ parsed.ok THEN parsed.value ELSE JSONObject(<<>>)

\* directToolCall up to its await
chatLoop_tool ==
    \E line \in Lines :
        /\ ReadLine(line)
        /\ ~IsQuit(line) /\ ~IsDebug(line) /\ ~IsInfo(line) /\ IsDirect(line)
        /\ FreshLocals
        /\ pc' = "await_direct"
        /\ pending' = {ReqCallTool(DirectToolName(line), DirectArgs(line))}
        /\ events' = <<Issue(ReqCallTool(DirectToolName(line), DirectArgs(line)))>>
        /\ console' = <<>>
        /\ UNCHANGED <<procVars, envLogLevel, connVars, unhandled, exited, exitCode>>

directToolCall_resolved ==
    /\ pc = "await_direct"
    /\ \E result \in ToolResults, req \in pending :
        /\ events' = Append(events, Settle(req, TRUE, result))
        /\ console' = Append(console, NL \o DirectResultText(DirectToolName(message),
                                 NormalizeContentDirect(result.content)))
    /\ BeginPrompt
    /\ UNCHANGED <<procVars, envLogLevel, connVars, linesRead, message, queryVars,
                   unhandled, exited, exitCode>>

directToolCall_rejected ==
    /\ pc = "await_direct"
    /\ \E req \in pending :
        /\ events' = Append(events, Settle(req, FALSE, ErrMessage))
        /\ console' = Append(console, NL \o DirectFailText(DirectToolName(message),
                                                         ErrMessage))
    /\ BeginPrompt
    /\ UNCHANGED <<procVars, envLogLevel, connVars, linesRead, message, queryVars,
                   unhandled, exited, exitCode>>


\* ------------------------------------------------------------ processQuery
ToolCallsOf(ch) ==
    IF "message" \in DOMAIN ch /\ "tool_calls" \in DOMAIN ch.message
    THEN ch.message.tool_calls ELSE <<>>

\* a loop that takes the last tool call first
NextFunctionCall_Last(tcs, from) ==
    IF \E k \in from..Len(tcs) : tcs[k].type = "function"
    THEN CHOOSE k \in from..Len(tcs) :
             tcs[k].type = "function" /\ \A j \in (k + 1)..Len(tcs) : tcs[j].type # "function"
    ELSE Len(tcs) + 1

\* the for loop skips a tool call whose type is not 'function'
NextFunctionCall(tcs, from) ==
    IF \E k \in from..Len(tcs) : tcs[k].type = "function"
    THEN CHOOSE k \in from..Len(tcs) :
             tcs[k].type = "function" /\ \A j \in from..(k - 1) : tcs[j].type # "function"
    ELSE Len(tcs) + 1

\* a push that puts the text in front of the buffer
PushText_Front(buffer, text) == <<text>> \o buffer
\* finalText.push(text)
PushText(buffer, text) == Append(buffer, text)

\* toolCall.function.arguments || "{}"
ArgumentsText(toolCall) ==
    IF Truthy(toolCall.function, "arguments") THEN toolCall.function.arguments
    ELSE <<"{", "}">>

\* processQuery has returned text; chatLoop prints it and prompts again
ReturnToChatLoop(text, ft, ms, evs, k) ==
    /\ console' = Append(console, NL \o text)
    /\ finalText' = ft
    /\ messages' = ms
    /\ events' = evs
    /\ idx' = k
    /\ toolArgs' = NoArgs
    /\ BeginPrompt
    /\ UNCHANGED <<exited, exitCode>>

\* An error thrown in processQuery outside the try block of a tool call.
\* part_000: the outer catch block returns a text.  index_ts: nothing catches
\* it before main(), whose finally block runs cleanup().
ThrowInQuery(msg, ft, ms, evs, k) ==
    IF client = "part_000"
    THEN ReturnToChatLoop(QueryErrorText(msg), ft, ms, evs, k)
    ELSE /\ finalText' = ft
         /\ messages' = ms
         /\ idx' = k
         /\ toolArgs' = NoArgs
         /\ BeginCleanupFrom(evs)
         /\ UNCHANGED console

\* The for loop from tool call number from on, up to the next await or to the
\* return statement.
ContinueLoop(ch, from, ft, ms, evs) ==
    LET tcs == ToolCallsOf(ch)
        k == NextFunctionCall(tcs, from)
    IN IF k > Len(tcs)
       THEN ReturnToChatLoop(Join(ft, NL), ft, ms, evs, k)
       ELSE LET parsed == JSON_parse(ArgumentsText(tcs[k]))
                req == ReqCallTool(tcs[k].function.name, parsed.value)
            IN IF ~parsed.ok
               THEN ThrowInQuery(SyntaxErrorMessage, ft, ms, evs, k)
               ELSE /\ pc' = "await_tool"
                    /\ idx' = k
                    /\ toolArgs' = parsed.value
                    /\ finalText' = ft
                    /\ messages' = ms
                    /\ pending' = {req}
                    /\ events' = Append(evs, Issue(req))
                    /\ UNCHANGED <<console, exited, exitCode>>

\* An error thrown inside the try block of one tool call.  part_000: the catch
\* block of the tool call records a line and the loop goes on.
ThrowInToolCall(msg, evs) ==
    IF client = "part_000"
    THEN ContinueLoop(choice, idx + 1,
             PushText(finalText,
                      ErrorLine(choice.message.tool_calls[idx].function.name, msg)),
             messages, evs)
    ELSE ThrowInQuery(msg, finalText, messages, evs, idx)

\* a conversation that goes on from the one of the query before
InitialMessages_Carried(query) == Append(messages, [role |-> "user", content |-> query])
\* const messages = [{ role: "user", content: query }]
InitialMessages(query) == <<[role |-> "user", content |-> query]>>

\* a line that is no command: processQuery up to its first await
chatLoop_query ==
    \E line \in Lines :
        /\ ReadLine(line)
        /\ ~IsQuit(line) /\ ~IsDebug(line) /\ ~IsInfo(line) /\ ~IsDirect(line)
        /\ messages' = InitialMessages(line)
        /\ finalText' = <<>>
        /\ choice' = NoChoice
        /\ idx' = 0
        /\ toolArgs' = NoArgs
        /\ pc' = "await_first"
        /\ pending' = {ReqModelWithTools(messages', tools)}
        /\ events' = <<Issue(ReqModelWithTools(messages', tools))>>
        /\ console' = <<>>
        /\ UNCHANGED <<procVars, envLogLevel, connVars, unhandled, exited, exitCode>>

processQuery_response ==
    /\ pc = "await_first"
    /\ \E response \in FirstResponses, req \in pending :
        LET evs == Append(events, Settle(req, TRUE, response))
        IN IF Len(response.choices) > 0
           THEN /\ choice' = response.choices[1]
                /\ ContinueLoop(response.choices[1], 1,
                       IF Truthy(response.choices[1].message, "content")
                       THEN PushText(<<>>, response.choices[1].message.content)
                       ELSE <<>>,
                       messages, evs)
           ELSE /\ choice' = NoChoice
                /\ ReturnToChatLoop(<<>>, <<>>, messages, evs, 0)
    /\ UNCHANGED <<procVars, envLogLevel, connVars, linesRead, message, unhandled>>

processQuery_responseFailed ==
    /\ pc = "await_first"
    /\ \E req \in pending :
        ThrowInQuery(ErrMessage, finalText, messages,
                     Append(events, Settle(req, FALSE, ErrMessage)), idx)
    /\ UNCHANGED <<procVars, envLogLevel, connVars, linesRead, message, choice,
                   unhandled>>

\* the two messages put in front of the conversation
PushMessages_Front(ms, assistant, toolMessage) == <<assistant, toolMessage>> \o ms
\* messages.push(choice.message); messages.push({role: "tool", ...})
PushMessages(ms, assistant, toolMessage) == ms \o <<assistant, toolMessage>>

\* callTool settled with a result: lines 291-315 up to the await of the
\* follow-up model call
processQuery_toolResult ==
    /\ pc = "await_tool"
    /\ \E result \in ToolResults, req \in pending :
        LET toolCall == choice.message.tool_calls[idx]
            ms == PushMessages(messages, choice.message, ToolMessage(toolCall, result))
        IN /\ finalText' = PushText(finalText,
                                    CallMarker(toolCall.function.name, toolArgs))
           /\ messages' = ms
           /\ pending' = {ReqModel(ms)}
           /\ events' = events \o <<Settle(req, TRUE, result), Issue(ReqModel(ms))>>
    /\ pc' = "await_followup"
    /\ UNCHANGED <<procVars, envLogLevel, connVars, linesRead, message, choice, idx,
                   toolArgs, console, unhandled, exited, exitCode>>

processQuery_toolFailed ==
    /\ pc = "await_tool"
    /\ \E req \in pending :
        ThrowInToolCall(ErrMessage, Append(events, Settle(req, FALSE, ErrMessage)))
    /\ UNCHANGED <<procVars, envLogLevel, connVars, linesRead, message, choice,
                   unhandled>>

processQuery_followUp ==
    /\ pc = "await_followup"
    /\ \E followUpResponse \in FollowUpResponses, req \in pending :
        ContinueLoop(choice, idx + 1,
            IF Len(followUpResponse.choices) > 0
               /\ Truthy(followUpResponse.choices[1].message, "content")
            THEN PushText(finalText, followUpResponse.choices[1].message.content)
            ELSE finalText,
            messages, Append(events, Settle(req, TRUE, followUpResponse)))
    /\ UNCHANGED <<procVars, envLogLevel, connVars, linesRead, message, choice,
                   unhandled>>

processQuery_followUpFailed ==
    /\ pc = "await_followup"
    /\ \E req \in pending :
        ThrowInToolCall(ErrMessage, Append(events, Settle(req, FALSE, ErrMessage)))
    /\ UNCHANGED <<procVars, envLogLevel, connVars, linesRead, message, choice,
                   unhandled>>

\* ------------------------------------------------------------ specification
Next ==
    \/ main
    \/ connectResolved
    \/ connectRejected
    \/ listToolsResolved
    \/ listToolsRejected
    \/ chatLoop_quit
    \/ chatLoop_debug
    \/ chatLoop_info
    \/ chatLoop_tool
    \/ chatLoop_query
    \/ directToolCall_resolved
    \/ directToolCall_rejected
    \/ processQuery_response
    \/ processQuery_responseFailed
    \/ processQuery_toolResult
    \/ processQuery_toolFailed
    \/ processQuery_followUp
    \/ processQuery_followUpFailed
    \/ closeResolved
    \/ closeRejected

Spec == Init /\ [][Next]_vars

TypeOK ==
    /\ pc \in {"main", "await_listTools", "await_question", "await_direct",
               "await_first", "await_tool", "await_followup", "await_close",
               "exited"}
    /\ Cardinality(pending) <= 1


\* ============================================================ weather server
\* src/weather-server-typescript/src/index.ts.  Times count milliseconds.
\* A coordinate is an integer counting millionths of a degree.
NWS_API_BASE == <<"https://api.weather.gov">>
InitialDelay == 500
DefaultRetryAfter == <<"5">>
MsPerSecond == 1000
MinLatitude == 24396308
MaxLatitude == 49384358
MinLongitude == 0 - 124848974
MaxLongitude == 0 - 66885444
StateCodeLength == 2
\* the longest delay a Node.js timer takes: 2^31 - 1
TIMEOUT_MAX == (2^30 - 1) * 2 + 1

\* ------------------------------------------------------------------- logger
ServerLogLevels == {"info", "error"}
\* an Error object, and a value that is no Error
ErrorOf(n, msg) == [name |-> n, message |-> msg]
IsError(e) == "name" \in DOMAIN e
logger_debug(msg) ==
    IF LOG_LEVEL = "debug" THEN << <<"[DEBUG] ">> \o msg >> ELSE <<>>
logger_info(msg) ==
    IF LOG_LEVEL = "debug" \/ LOG_LEVEL = "info" THEN << <<"[INFO] ">> \o msg >> ELSE <<>>
logger_warn(msg) ==
    IF LOG_LEVEL = "debug" \/ LOG_LEVEL = "info" \/ LOG_LEVEL = "warn"
    THEN << <<"[WARN] ">> \o msg >> ELSE <<>>
logger_error(msg, error) ==
    << <<"[ERROR] ">> \o msg >>
    \o (IF IsError(error)
        THEN << <<"  - name: ">> \o error.name,
                <<"  - message: ">> \o error.message,
                <<"  - stack: ">> \o <<"stack">> >>
        ELSE << <<"  - details:">> \o error.text >>)

\* ------------------------------------------------------- numbers and timers
UpperOf(c) ==
    CASE c = "c" -> "C" [] c = "a" -> "A" [] c = "n" -> "N" [] c = "y" -> "Y"
      [] OTHER -> c
toUpperCase(s) == [k \in 1..Len(s) |-> UpperOf(s[k])]

DigitValue(c) ==
    CASE c = "0" -> 0 [] c = "1" -> 1 [] c = "2" -> 2 [] c = "3" -> 3 [] c = "4" -> 4
      [] c = "5" -> 5 [] c = "6" -> 6 [] c = "7" -> 7 [] c = "8" -> 8 [] c = "9" -> 9
RECURSIVE LeadingDigits(_)
LeadingDigits(s) ==
    IF s # <<>> /\ Head(s) \in Digits
    THEN <<Head(s)>> \o LeadingDigits(Tail(s))
    ELSE <<>>
RECURSIVE ValueOfDigits(_)
ValueOfDigits(ds) ==
    IF ds = <<>> THEN 0
    ELSE ValueOfDigits(SubSeq(ds, 1, Len(ds) - 1)) * 10 + DigitValue(ds[Len(ds)])
NaN == [nan |-> TRUE]
Num(n) == [nan |-> FALSE, value |-> n]
\* parseInt(text): white space is skipped, a sign is read, then the digits up
\* to the first character that is none; NaN when there is no digit
parseInt(text) ==
    LET t == TrimStart(text)
        negative == t # <<>> /\ Head(t) = "-"
        u == IF t # <<>> /\ Head(t) \in {"-", "+"} THEN Tail(t) ELSE t
        ds == LeadingDigits(u)
    IN IF ds = <<>> THEN NaN
       ELSE IF negative THEN Num(0 - ValueOfDigits(ds))
       ELSE Num(ValueOfDigits(ds))

\* The time setTimeout(resolve, seconds * 1000) waits.  Node.js takes a delay
\* that is no number from 1 to TIMEOUT_MAX as 1.  The product is formed only
\* where it is in that range: seconds * 1000 > TIMEOUT_MAX exactly when
\* seconds > TIMEOUT_MAX \div 1000.
TimerDelayOfSeconds(seconds) ==
    IF seconds.nan \/ seconds.value < 1 \/ seconds.value > TIMEOUT_MAX \div MsPerSecond
    THEN 1
    ELSE seconds.value * MsPerSecond

\* number.toFixed(4), in ten-thousandths of a degree
toFixed4(x) == IF x >= 0 THEN (x + 50) \div 100 ELSE 0 - ((50 - x) \div 100)
\* `${number}`: the digits of the count of millionths
NumberText(x) == <<ToString(x)>>
Fixed4Text(x) == <<ToString(toFixed4(x))>>

\* ------------------------------------------------------------- the upstream
\* Retry-After is a number of seconds or an HTTP date (RFC 9110, 10.2.3)
HttpDate == <<"W", "e", "d", ",", " ", "2", "1", " ", "O", "c", "t", " 2015 07:28:02 GMT">>
RetryAfter_0 == <<"0">>
RetryAfter_2 == <<"2">>
RetryAfter_Long == <<"2", "1", "4", "7", "4", "8", "4">>
RetryAfterValues == {RetryAfter_0, RetryAfter_2, RetryAfter_Long, HttpDate}
Headers(v) == [k \in {"Retry-After"} |-> v]
NoRetryAfter == [k \in {"Content-Type"} |-> <<"application/problem+json">>]
RateLimitedResponses(u) ==
    { [status |-> 429, ok |-> FALSE, url |-> u, headers |-> h] :
        h \in {NoRetryAfter} \cup { Headers(v) : v \in RetryAfterValues } }
OtherResponses(u) ==
    { [status |-> 200, ok |-> TRUE, url |-> u, headers |-> NoRetryAfter],
      [status |-> 404, ok |-> FALSE, url |-> u, headers |-> NoRetryAfter],
      [status |-> 500, ok |-> FALSE, url |-> u, headers |-> NoRetryAfter] }
\* the answers to one request, by what the upstream still has to give
Responses(u) ==
    IF upstream.mode = "always" \/ upstream.left > 0
    THEN RateLimitedResponses(u)
    ELSE OtherResponses(u)
Upstreams ==
    { [mode |-> "always", left |-> 0] }
    \cup { [mode |-> "budget", left |-> n] : n \in 0..MaxRetries }

\* the values response.json() gives.  null is [null |-> TRUE]; an object is a
\* record of the properties it has.
JsonNull == [null |-> TRUE]
IsNull(v) == "null" \in DOMAIN v
ForecastURL == NWS_API_BASE \o <<"/gridpoints/TOP/31,80/forecast">>
Alert_Flood ==
    [type |-> <<"Feature">>,
     properties |-> [event |-> <<"Flood Warning">>, severity |-> <<"Severe">>]]
Feature_NoProperties == [type |-> <<"Feature">>]
Period_Tonight ==
    [name |-> <<"Tonight">>, temperature |-> <<"7", "2">>, windSpeed |-> <<"5 mph">>]
AlertsBodies ==
    { JsonNull,
      [type |-> <<"FeatureCollection">>],
      [type |-> <<"FeatureCollection">>, features |-> <<>>],
      [type |-> <<"FeatureCollection">>, features |-> <<Alert_Flood>>],
      [type |-> <<"FeatureCollection">>, features |-> <<Alert_Flood, Feature_NoProperties>>] }
PointsBodies ==
    { JsonNull,
      [type |-> <<"Feature">>],
      [type |-> <<"Feature">>, properties |-> [cwa |-> <<"TOP">>]],
      [type |-> <<"Feature">>, properties |-> [forecast |-> ForecastURL]] }
ForecastBodies ==
    { JsonNull,
      [type |-> <<"Feature">>],
      [type |-> <<"Feature">>, properties |-> [periods |-> <<>>]],
      [type |-> <<"Feature">>, properties |-> [periods |-> <<Period_Tonight>>]],
      [type |-> <<"Feature">>, properties |-> [periods |-> <<Period_Tonight, JsonNull>>]] }
Bodies ==
    CASE stage = "alerts" -> AlertsBodies
      [] stage = "points" -> PointsBodies
      [] stage = "forecast" -> ForecastBodies
      [] OTHER -> {}

\* the tool requests of a client
Tool_apps == "get-installed-apps"
Tool_alerts == "get-alerts"
Tool_forecast == "get-forecast"
StateCodes == { <<"c", "a">>, <<"c">>, <<"c", "a", "l">> }
\* the corners of the box, and points one millionth of a degree outside it
Coordinates ==
    { <<MinLatitude, MinLongitude>>, <<MaxLatitude, MaxLongitude>>,
      <<MinLatitude - 1, MinLongitude>>, <<MaxLatitude + 1, MaxLongitude>>,
      <<MinLatitude, MinLongitude - 1>>, <<MaxLatitude, MaxLongitude + 1>>,
      <<MinLatitude - 1, MaxLongitude + 1>> }
ToolRequests ==
    { [name |-> Tool_apps, arguments |-> [none |-> TRUE]] }
    \cup { [name |-> Tool_alerts, arguments |-> [state |-> s]] : s \in StateCodes }
    \cup { [name |-> Tool_forecast, arguments |-> [latitude |-> c[1], longitude |-> c[2]]] :
             c \in Coordinates }
Apps == JSONObject(<<[k |-> <<"n">>, v |-> JSONNumber(<<"1">>)]>>)

\* ------------------------------------------------------------------ results
TextResult(t) == [content |-> <<[type |-> "text", text |-> t]>>]
\* a handler ends by returning a result or by throwing an error
Returns(result) == [returns |-> result]
Throws(error) == [throws |-> error]
TypeError == ErrorOf(<<"TypeError">>, <<"Cannot read properties of undefined">>)
\* the answer of the SDK to a request whose arguments fail the tool's schema
InvalidParams == [error |-> <<"InvalidParams">>]

\* a wrapper that lets the error of the handler through
withErrorHandling_NoCatch(toolName, outcome) ==
    IF "throws" \in DOMAIN outcome
    THEN [error |-> outcome.throws.message]
    ELSE outcome.returns

\* withErrorHandling(toolName, handler), given how the handler ended
withErrorHandling(toolName, outcome) ==
    IF "throws" \in DOMAIN outcome
    THEN TextResult(<<"Error while executing tool: ">> \o outcome.throws.message)
    ELSE outcome.returns

OrUnknown(rec, field, fallback) == IF Truthy(rec, field) THEN rec[field] ELSE fallback
\* `${value || fallback}` for a number: 0 is falsy
NumberOrUnknown(rec, field, fallback) ==
    IF field \in DOMAIN rec /\ rec[field] # <<"0">> THEN rec[field] ELSE fallback

formatAlert(feature) ==
    LET props == feature.properties
    IN Join(<< <<"Sent: ">> \o <<"date">>,
               <<"Event: ">> \o OrUnknown(props, "event", <<"Unknown">>),
               <<"Area: ">> \o OrUnknown(props, "areaDesc", <<"Unknown">>),
               <<"Severity: ">> \o OrUnknown(props, "severity", <<"Unknown">>),
               <<"Status: ">> \o OrUnknown(props, "status", <<"Unknown">>),
               <<"Headline: ">> \o OrUnknown(props, "headline", <<"No headline">>),
               <<"---">> >>, NL)

formatPeriod(period) ==
    Join(<< OrUnknown(period, "name", <<"Unknown">>) \o <<":">>,
            <<"Temperature: ">> \o NumberOrUnknown(period, "temperature", <<"Unknown">>)
                \o <<"deg">> \o OrUnknown(period, "temperatureUnit", <<"F">>),
            <<"Wind: ">> \o OrUnknown(period, "windSpeed", <<"Unknown">>) \o <<" ">>
                \o OrUnknown(period, "windDirection", <<>>),
            OrUnknown(period, "shortForecast", <<"No forecast available">>),
            <<"---">> >>, NL)

AlertsFailedText == <<"Failed to retrieve alerts data">>
PointsFailedText(latitude, longitude) ==
    <<"Failed to retrieve grid point data for (">> \o NumberText(latitude) \o <<", ">>
    \o NumberText(longitude) \o <<"). The location may not be supported by the NWS API.">>
NoForecastURLText == <<"Failed to get the forecast URL from the grid point data">>
ForecastFailedText == <<"Failed to retrieve forecast data">>
NoPeriodsText == <<"No forecast periods available">>

\* the get-alerts handler after makeNWSRequest returned alertsData
AlertsListing(alertsData, stateCode) ==
    LET features == IF "features" \in DOMAIN alertsData
                    THEN alertsData.features ELSE <<>>
    IN IF Len(features) = 0
       THEN Returns(TextResult(<<"No active alerts for ">> \o stateCode))
       ELSE IF \E k \in 1..Len(features) : "properties" \notin DOMAIN features[k]
       THEN Throws(TypeError)
       ELSE Returns(TextResult(
                <<"Active alerts for ">> \o stateCode \o <<":">> \o NL \o NL
                \o Join([k \in 1..Len(features) |-> formatAlert(features[k])], NL)))
\* the handler without its test of alertsData: reading features of null throws
AlertsOutcome_NoNullCheck(alertsData, stateCode) ==
    IF IsNull(alertsData) THEN Throws(TypeError)
    ELSE AlertsListing(alertsData, stateCode)
AlertsOutcome(alertsData, stateCode) ==
    IF IsNull(alertsData) THEN Returns(TextResult(AlertsFailedText))
    ELSE AlertsListing(alertsData, stateCode)

\* the get-forecast handler after makeNWSRequest returned forecastData
ForecastOutcome(forecastData, latitude, longitude) ==
    IF IsNull(forecastData) THEN Returns(TextResult(ForecastFailedText))
    ELSE LET periods == IF "properties" \in DOMAIN forecastData
                           /\ "periods" \in DOMAIN forecastData.properties
                        THEN forecastData.properties.periods ELSE <<>>
         IN IF Len(periods) = 0 THEN Returns(TextResult(NoPeriodsText))
            ELSE IF \E k \in 1..Len(periods) : IsNull(periods[k])
            THEN Throws(TypeError)
            ELSE Returns(TextResult(
                     <<"Forecast for (">> \o NumberText(latitude) \o <<", ">>
                     \o NumberText(longitude) \o <<"):">> \o NL \o NL
                     \o Join([k \in 1..Len(periods) |-> formatPeriod(periods[k])], NL)))

\* ------------------------------------------------------------ server process
clientVars == <<client, argv, MCP_SERVER_URL, LOG_LEVEL, envLogLevel, pc, transport,
                transportUrl, command, connectState, tools, linesRead, message, messages, finalText,
                choice, idx, toolArgs, pending, events, console, unhandled, scenario>>

ServerInit ==
    /\ client = "weather"
    /\ scenario = "serve"
    /\ argv = <<>>
    /\ MCP_SERVER_URL = <<>>
    /\ LOG_LEVEL \in ServerLogLevels
    /\ envLogLevel = LOG_LEVEL
    /\ ClientNotStarted
    /\ ServerNotStarted
    /\ upstream \in Upstreams

\* process.exit(code) in the server
ServerExit(code) ==
    /\ exited' = TRUE
    /\ exitCode' = code
    /\ spc' = "exited"

\* main() up to its await
weather_main ==
    /\ spc = "main"
    /\ spc' = "await_connect"
    /\ stderr' = logger_info(<<"Starting MCP server...">>)
    /\ UNCHANGED <<clientVars, request, stage, url, nwsResponse, timer, waited, fetches,
                   lastFetch, data, reply, served, upstream, failures, lastFailure,
                   exited, exitCode>>

weather_connected ==
    /\ spc = "await_connect"
    /\ spc' = "idle"
    /\ stderr' = logger_info(<<"Weather MCP Server running on stdio">>)
    /\ UNCHANGED <<clientVars, request, stage, url, nwsResponse, timer, waited, fetches,
                   lastFetch, data, reply, served, upstream, failures, lastFailure,
                   exited, exitCode>>

weather_connectFailed ==
    /\ spc = "await_connect"
    /\ stderr' = logger_error(<<"Server failed to start">>, ErrorOf(<<"Error">>, ErrMessage))
    /\ ServerExit(1)
    /\ UNCHANGED <<clientVars, request, stage, url, nwsResponse, timer, waited, fetches,
                   lastFetch, data, reply, served, upstream, failures, lastFailure>>

\* process.on('uncaughtException')
uncaughtException ==
    /\ spc \notin {"main", "exited"}
    /\ stderr' = logger_error(<<"Uncaught exception">>, ErrorOf(<<"Error">>, ErrMessage))
    /\ lastFailure' = "uncaughtException"
    /\ ServerExit(1)
    /\ UNCHANGED <<clientVars, request, stage, url, nwsResponse, timer, waited, fetches,
                   lastFetch, data, reply, served, upstream, failures>>

\* process.on('unhandledRejection'): the handler logs and returns
unhandledRejection ==
    /\ spc \notin {"main", "exited"}
    /\ failures < MaxFailures
    /\ \E reason \in {ErrorOf(<<"Error">>, ErrMessage), [text |-> ErrMessage]} :
        stderr' = logger_error(<<"Unhandled promise rejection">>, reason)
    /\ failures' = failures + 1
    /\ lastFailure' = "unhandledRejection"
    /\ UNCHANGED <<clientVars, spc, request, stage, url, nwsResponse, timer, waited, fetches,
                   lastFetch, data, reply, served, upstream, exited, exitCode>>

\* ------------------------------------------------------------ tool requests
\* the zod schemas of the registrations
ValidArguments_LatitudeOnly(req) ==
    CASE req.name = Tool_alerts -> Len(req.arguments.state) = StateCodeLength
      [] req.name = Tool_forecast ->
            /\ req.arguments.latitude >= MinLatitude
            /\ req.arguments.latitude <= MaxLatitude
      [] OTHER -> TRUE

ValidArguments(req) ==
    CASE req.name = Tool_alerts -> Len(req.arguments.state) = StateCodeLength
      [] req.name = Tool_forecast ->
            /\ req.arguments.latitude >= MinLatitude
            /\ req.arguments.latitude <= MaxLatitude
            /\ req.arguments.longitude >= MinLongitude
            /\ req.arguments.longitude <= MaxLongitude
      [] OTHER -> TRUE

\* a request arrives while no other is being served
Receive(req) ==
    /\ spc = "idle"
    /\ served < MaxRequests
    /\ req \in ToolRequests
    /\ request' = req

\* the result of the wrapped handler is sent back
Respond(outcome, logs) ==
    /\ reply' = [request |-> request,
                  result |-> withErrorHandling(request.name, outcome)]
    /\ served' = served + 1
    /\ spc' = "idle"
    /\ stderr' = logs \o (IF "throws" \in DOMAIN outcome
                          THEN logger_error(<<"Tool failed: ", request.name>>, outcome.throws)
                          ELSE logger_debug(<<"Tool succeeded: ", request.name>>))
    /\ UNCHANGED <<stage, url, timer, waited, fetches, lastFetch>>

\* makeNWSRequest(u) up to its first await, the timer of 500 ms
BeginRequest(u, st, logs) ==
    /\ url' = u
    /\ stage' = st
    /\ spc' = "delay"
    /\ timer' = InitialDelay
    /\ waited' = 0
    /\ fetches' = 0
    /\ lastFetch' = NoFetch
    /\ nwsResponse' = NoResponse
    /\ stderr' = logs \o logger_debug(<<"Requesting: ">> \o u)
    /\ UNCHANGED <<reply, served>>

toolRequest_invalid ==
    /\ \E req \in ToolRequests :
        /\ Receive(req)
        /\ ~ValidArguments(req)
        /\ reply' = [request |-> req, result |-> InvalidParams]
    /\ served' = served + 1
    /\ stage' = "none"
    /\ url' = <<>>
    /\ timer' = 0
    /\ waited' = 0
    /\ fetches' = 0
    /\ lastFetch' = NoFetch
    /\ data' = Undefined
    /\ stderr' = <<>>
    /\ UNCHANGED <<clientVars, spc, nwsResponse, upstream, failures, lastFailure,
                   exited, exitCode>>

getInstalledApps_call ==
    /\ \E req \in ToolRequests :
        /\ Receive(req)
        /\ ValidArguments(req)
        /\ req.name = Tool_apps
    /\ spc' = "await_apps"
    /\ stage' = "none"
    /\ url' = <<>>
    /\ timer' = 0
    /\ waited' = 0
    /\ fetches' = 0
    /\ lastFetch' = NoFetch
    /\ data' = Undefined
    /\ stderr' = logger_debug(<<"Executing tool: ", Tool_apps>>)
    /\ UNCHANGED <<clientVars, nwsResponse, reply, served, upstream, failures,
                   lastFailure, exited, exitCode>>

getInstalledApps_resolved ==
    /\ spc = "await_apps"
    /\ Respond(Returns(TextResult(JSON_stringify_indent(Apps))), <<>>)
    /\ UNCHANGED <<clientVars, request, nwsResponse, data, upstream, failures,
                   lastFailure, exited, exitCode>>

getInstalledApps_rejected ==
    /\ spc = "await_apps"
    /\ Respond(Throws(ErrorOf(<<"Error">>, ErrMessage)), <<>>)
    /\ UNCHANGED <<clientVars, request, nwsResponse, data, upstream, failures,
                   lastFailure, exited, exitCode>>

AlertsURL(stateCode) == NWS_API_BASE \o <<"/alerts?area=">> \o stateCode
PointsURL(latitude, longitude) ==
    NWS_API_BASE \o <<"/points/">> \o Fixed4Text(latitude) \o <<",">> \o Fixed4Text(longitude)

getAlerts_call ==
    /\ \E req \in ToolRequests :
        /\ Receive(req)
        /\ ValidArguments(req)
        /\ req.name = Tool_alerts
        /\ LET stateCode == toUpperCase(req.arguments.state)
           IN BeginRequest(AlertsURL(stateCode), "alerts",
                  logger_debug(<<"Executing tool: ", Tool_alerts>>)
                  \o logger_info(<<"Getting weather alerts for: ">> \o stateCode))
    /\ data' = Undefined
    /\ UNCHANGED <<clientVars, upstream, failures, lastFailure, exited,
                   exitCode>>

getForecast_call ==
    /\ \E req \in ToolRequests :
        /\ Receive(req)
        /\ ValidArguments(req)
        /\ req.name = Tool_forecast
        /\ BeginRequest(PointsURL(req.arguments.latitude, req.arguments.longitude),
               "points",
               logger_debug(<<"Executing tool: ", Tool_forecast>>)
               \o logger_info(<<"Getting forecast for: (">>
                              \o NumberText(req.arguments.latitude) \o <<", ">>
                              \o NumberText(req.arguments.longitude) \o <<")">>))
    /\ data' = Undefined
    /\ UNCHANGED <<clientVars, upstream, failures, lastFailure, exited,
                   exitCode>>

\* ------------------------------------------------------------ makeNWSRequest
USER_AGENT == <<"weather-app/1.0">>
RequestHeaders == [User_Agent |-> USER_AGENT, Accept |-> <<"application/geo+json">>]
HttpError(resp, u) ==
    ErrorOf(<<"Error">>, <<"HTTP error! status: ", ToString(resp.status), ", URL: ">> \o u)
NetworkError == ErrorOf(<<"TypeError">>, <<"fetch failed">>)
ParseError == ErrorOf(<<"SyntaxError">>, <<"Unexpected token">>)
\* a retry limit: after the second 429 the status is taken as an HTTP error
IsRateLimited_Limited(resp) == resp.status = 429 /\ fetches < 2
\* response.status === 429
IsRateLimited(resp) == resp.status = 429
\* the response once response.json() has read its body
WithBody(resp, body) ==
    [status |-> resp.status, ok |-> resp.ok, url |-> resp.url, headers |-> resp.headers,
     body |-> body]
\* response.headers.get('Retry-After') || '5'
RetryAfterOf(resp) ==
    IF Truthy(resp.headers, "Retry-After") THEN resp.headers["Retry-After"]
    ELSE DefaultRetryAfter
\* setTimeout(resolve, parseInt(retryAfter) * 1000): the delay of the timer,
\* for every value retryAfter takes
RetryDelay ==
    [retryAfter \in RetryAfterValues \cup {DefaultRetryAfter} |->
        TimerDelayOfSeconds(parseInt(retryAfter))]
\* the URL of the points lookup requested a second time
forecastUrl_PointsAgain(pointsData) == url
\* const forecastUrl = pointsData.properties?.forecast, when it has one
forecastUrl(pointsData) == pointsData.properties.forecast
HasForecastURL(pointsData) ==
    "properties" \in DOMAIN pointsData /\ Truthy(pointsData.properties, "forecast")
CoordinatesText ==
    <<"(">> \o NumberText(request.arguments.latitude) \o <<", ">>
    \o NumberText(request.arguments.longitude) \o <<")">>

\* makeNWSRequest returns value to the handler that awaits it, and the handler
\* runs on to its next await or to its end
Return(value, resp, logs) ==
    /\ data' = value
    /\ IF stage = "alerts"
       THEN /\ Respond(AlertsOutcome(value, toUpperCase(request.arguments.state)),
                       logs \o (IF IsNull(value)
                                THEN logger_warn(<<"Unable to get alerts data">>)
                                ELSE logger_info(<<"Alerts data received">>)))
            /\ nwsResponse' = resp
       ELSE IF stage = "points"
       THEN IF IsNull(value)
            THEN /\ Respond(Returns(TextResult(
                                PointsFailedText(request.arguments.latitude,
                                                 request.arguments.longitude))),
                            logs \o logger_warn(<<"Unable to get grid point data for ">>
                                                \o CoordinatesText))
                 /\ nwsResponse' = resp
            ELSE IF ~HasForecastURL(value)
            THEN /\ Respond(Returns(TextResult(NoForecastURLText)),
                            logs \o logger_warn(<<"Unable to get the forecast URL: ">>
                                                \o CoordinatesText))
                 /\ nwsResponse' = resp
            ELSE BeginRequest(forecastUrl(value), "forecast", logs)
       ELSE /\ Respond(ForecastOutcome(value, request.arguments.latitude,
                                       request.arguments.longitude),
                       logs \o (IF IsNull(value)
                                THEN logger_warn(<<"Unable to get forecast data: ">> \o url)
                                ELSE <<>>))
            /\ nwsResponse' = resp

\* the timer of 500 ms has fired: fetch(url, { headers }) is called
makeNWSRequest_fetch ==
    /\ spc = "delay"
    /\ waited' = waited + timer
    /\ lastFetch' = [url |-> url, headers |-> RequestHeaders, waited |-> waited + timer]
    /\ fetches' = IF fetches > MaxRetries THEN fetches ELSE fetches + 1
    /\ spc' = "await_fetch"
    /\ stderr' = <<>>
    /\ UNCHANGED <<clientVars, request, stage, url, nwsResponse, timer, data, reply,
                   served, upstream, failures, lastFailure, exited, exitCode>>

\* fetch rejects: the catch block returns null
makeNWSRequest_networkError ==
    /\ spc = "await_fetch"
    /\ upstream.mode = "budget"
    /\ Return(JsonNull, nwsResponse,
              logger_error(<<"Error requesting the NWS API: ">> \o url, NetworkError))
    /\ UNCHANGED <<clientVars, request, upstream, failures, lastFailure, exited,
                   exitCode>>

\* status 429: setTimeout arms the timer of the retry
makeNWSRequest_rateLimited ==
    /\ spc = "await_fetch"
    /\ \E resp \in Responses(lastFetch.url) :
        /\ IsRateLimited(resp)
        /\ nwsResponse' = resp
        /\ stderr' = logger_warn(<<"Rate limited, retrying in ">> \o RetryAfterOf(resp)
                                 \o <<" seconds: ">> \o url)
        /\ timer' = RetryDelay[RetryAfterOf(resp)]
    /\ upstream' = IF upstream.mode = "budget"
                   THEN [upstream EXCEPT !.left = @ - 1]
                   ELSE upstream
    /\ waited' = 0
    /\ spc' = "retry_wait"
    /\ UNCHANGED <<clientVars, request, stage, url, fetches, lastFetch, data, reply,
                   served, failures, lastFailure, exited, exitCode>>

\* the timer of the retry has fired: makeNWSRequest(url) is called again and
\* arms its timer of 500 ms
makeNWSRequest_retry ==
    /\ spc = "retry_wait"
    /\ waited' = waited + timer
    /\ timer' = InitialDelay
    /\ spc' = "delay"
    /\ stderr' = logger_debug(<<"Requesting: ">> \o url)
    /\ UNCHANGED <<clientVars, request, stage, url, nwsResponse, fetches, lastFetch,
                   data, reply, served, upstream, failures, lastFailure, exited,
                   exitCode>>

\* a status that is neither 429 nor a success: the Error thrown is caught
makeNWSRequest_httpError ==
    /\ spc = "await_fetch"
    /\ \E resp \in Responses(lastFetch.url) :
        /\ ~IsRateLimited(resp)
        /\ ~resp.ok
        /\ Return(JsonNull, resp,
                  logger_error(<<"Error requesting the NWS API: ">> \o url,
                               HttpError(resp, url)))
    /\ UNCHANGED <<clientVars, request, upstream, failures, lastFailure, exited,
                   exitCode>>

\* a success status: response.json() is awaited
makeNWSRequest_ok ==
    /\ spc = "await_fetch"
    /\ \E resp \in Responses(lastFetch.url) :
        /\ resp.ok
        /\ nwsResponse' = resp
    /\ waited' = 0
    /\ spc' = "await_json"
    /\ stderr' = <<>>
    /\ UNCHANGED <<clientVars, request, stage, url, timer, fetches, lastFetch, data,
                   reply, served, upstream, failures, lastFailure, exited, exitCode>>

makeNWSRequest_json ==
    /\ spc = "await_json"
    /\ \E body \in Bodies :
        Return(body, WithBody(nwsResponse, body),
               logger_debug(<<"Request succeeded: ">> \o url))
    /\ UNCHANGED <<clientVars, request, upstream, failures, lastFailure, exited,
                   exitCode>>

\* response.json() rejects: the catch block returns null
makeNWSRequest_jsonFailed ==
    /\ spc = "await_json"
    /\ Return(JsonNull, nwsResponse,
              logger_error(<<"Error requesting the NWS API: ">> \o url, ParseError))
    /\ UNCHANGED <<clientVars, request, upstream, failures, lastFailure, exited,
                   exitCode>>

ServerNext ==
    \/ weather_main
    \/ weather_connected
    \/ weather_connectFailed
    \/ uncaughtException
    \/ unhandledRejection
    \/ toolRequest_invalid
    \/ getInstalledApps_call
    \/ getInstalledApps_resolved
    \/ getInstalledApps_rejected
    \/ getAlerts_call
    \/ getForecast_call
    \/ makeNWSRequest_fetch
    \/ makeNWSRequest_networkError
    \/ makeNWSRequest_rateLimited
    \/ makeNWSRequest_retry
    \/ makeNWSRequest_httpError
    \/ makeNWSRequest_ok
    \/ makeNWSRequest_json
    \/ makeNWSRequest_jsonFailed

\* Timers fire and the promises of fetch, json, getInstalledApps and connect
\* settle: the steps of a started call are not put off for ever.
ServerProgress ==
    \/ makeNWSRequest_fetch
    \/ makeNWSRequest_networkError
    \/ makeNWSRequest_rateLimited
    \/ makeNWSRequest_retry
    \/ makeNWSRequest_httpError
    \/ makeNWSRequest_ok
    \/ makeNWSRequest_json
    \/ makeNWSRequest_jsonFailed

ServerSpec == ServerInit /\ [][ServerNext]_vars /\ WF_vars(ServerProgress)

ServerTypeOK ==
    /\ spc \in {"main", "await_connect", "idle", "await_apps", "delay", "await_fetch",
                "retry_wait", "await_json", "exited"}
    /\ fetches \in 0..(MaxRetries + 1)
    /\ served \in 0..MaxRequests


\* ------------------------------------------------------ the run, as observed
Range(f) == { f[k] : k \in DOMAIN f }
RECURSIVE SelectEvents(_, _, _)
\* the requests of events with event kind ev and operation op, in order
SelectEvents(evs, ev, op) ==
    IF evs = <<>> THEN <<>>
    ELSE IF Head(evs).ev = ev /\ Head(evs).req.op = op
         THEN <<Head(evs).req>> \o SelectEvents(Tail(evs), ev, op)
         ELSE SelectEvents(Tail(evs), ev, op)
ModelCalls == SelectEvents(events, "issue", "model")
ToolInvocations == SelectEvents(events, "issue", "callTool")
IsFollowUp(req) == req.op = "model" /\ "tools" \notin DOMAIN req

\* the line being handled was given to processQuery
InQuery ==
    /\ linesRead > 0
    /\ ~IsQuit(message) /\ ~IsDebug(message) /\ ~IsInfo(message) /\ ~IsDirect(message)
\* the first response arrived with a choice
HasChoice == InQuery /\ choice # NoChoice
FirstToolCalls == ToolCallsOf(choice)
ParsesOK(toolCall) == JSON_parse(ArgumentsText(toolCall)).ok
\* the text processQuery returned, printed by chatLoop as "\n" + response
Returned == Substring(console[1], 1)
OutputLines == Split(Returned, "\n")
NamesFailedTool(line, toolName) ==
    StartsWith(line, <<"[Error] tool ">> \o toolName \o <<" call failed: ">>)

\* ---------------------------------------------------------------------- C1
ToolMessagesFor(msgs, p, id) ==
    { q \in (p + 1)..Len(msgs) : msgs[q].role = "tool" /\ msgs[q].tool_call_id = id }
WellFormedConversation(msgs) ==
    \A p \in 1..Len(msgs) :
        (msgs[p].role = "assistant" /\ "tool_calls" \in DOMAIN msgs[p]) =>
            \A k \in 1..Len(msgs[p].tool_calls) :
                Cardinality(ToolMessagesFor(msgs, p, msgs[p].tool_calls[k].id)) = 1

\* C1: whenever a follow-up model call is issued, every tool call of every
\* assistant message of the conversation it sends has exactly one tool-role
\* message with the same tool_call_id after it.
C1_FollowUpConversationWellFormed ==
    \A req \in pending : IsFollowUp(req) => WellFormedConversation(req.messages)

\* ---------------------------------------------------------------------- C2
\* the for loop stopped at tool call idx because its arguments did not parse
ParseFailedAt ==
    /\ HasChoice
    /\ idx \in 1..Len(FirstToolCalls)
    /\ FirstToolCalls[idx].type = "function"
    /\ ~ParsesOK(FirstToolCalls[idx])

\* C2: when the arguments of one tool call fail to parse, the query still
\* returns to the loop, its output has an error line naming the failing tool,
\* the text buffered before is part of the output, and every other tool call
\* of the response whose arguments parse is invoked.
C2_ParseFailureKeepsBatch ==
    ParseFailedAt =>
        /\ pc = "await_question"
        /\ \E k \in 1..Len(OutputLines) :
               NamesFailedTool(OutputLines[k], FirstToolCalls[idx].function.name)
        /\ \A k \in 1..Len(finalText) : \E j \in 1..Len(OutputLines) :
               finalText[k] = OutputLines[j]
        /\ \A k \in 1..Len(FirstToolCalls) :
               (FirstToolCalls[k].type = "function" /\ ParsesOK(FirstToolCalls[k])) =>
                   \E r \in Range(ToolInvocations) :
                       r.name = FirstToolCalls[k].function.name


\* ---------------------------------------------------------------------- C3
IsQueryRequest(req) == req.op \in {"model", "callTool"}
\* this step is the failure of callTool or of the follow-up model call of the
\* tool call at idx
ToolCallFailsNow ==
    /\ pc \in {"await_tool", "await_followup"}
    /\ Len(events') > Len(events)
    /\ events'[Len(events) + 1].ev = "settle"
    /\ ~events'[Len(events) + 1].ok

\* C3: when callTool or the follow-up model call of one tool call fails, an
\* error line naming that tool is appended to the output buffer and the loop
\* goes on with the remaining tool calls: the query is not aborted.
C3_ToolFailureContinuesBatch ==
    [][ToolCallFailsNow =>
          /\ Len(finalText') >= Len(finalText) + 1
          /\ NamesFailedTool(finalText'[Len(finalText) + 1],
                             FirstToolCalls[idx].function.name)
          /\ pc' \in {"await_tool", "await_question"}
          /\ idx' > idx]_vars

\* ---------------------------------------------------------------------- C4
IterationFailed ==
    \/ ParseFailedAt
    \/ \E e \in Range(events) : e.ev = "settle" /\ IsQueryRequest(e.req) /\ ~e.ok
IsErrorText(line) ==
    \/ StartsWith(line, <<"[Error] tool ">>)
    \/ StartsWith(line, <<"Error while processing query: ">>)
    \/ StartsWith(line, <<"Calling tool ">>)

\* C4: the loop ends only by quit.  A failure of the provider, of JSON parsing
\* or of a tool call inside an iteration does not end it: the iteration prints
\* an error line and the loop prompts for the next line.
C4_LoopNeverEndsOnError ==
    /\ (linesRead > 0 /\ pc \in {"await_close", "exited"}) => IsQuit(message)
    /\ (linesRead > 0 /\ pc = "await_question" /\ IterationFailed) =>
           \E k \in 1..Len(OutputLines) : IsErrorText(OutputLines[k])

\* ---------------------------------------------------------------------- C5
RequestsTool(res) ==
    /\ "choices" \in DOMAIN res
    /\ Len(res.choices) > 0
    /\ ToolCallsOf(res.choices[1]) # <<>>

\* C5: in a query, the first model call carries the tool catalog and no later
\* one does; at most as many tools are invoked as the first response has tool
\* calls, and only tools the first response names.
C5_OneRoundOfToolCalls ==
    InQuery =>
        /\ Len(ModelCalls) >= 1
        /\ "tools" \in DOMAIN ModelCalls[1] /\ ModelCalls[1].tools = tools
        /\ \A k \in 2..Len(ModelCalls) : "tools" \notin DOMAIN ModelCalls[k]
        /\ Len(ToolInvocations) <= Len(FirstToolCalls)
        /\ \A r \in Range(ToolInvocations) :
               \E k \in 1..Len(FirstToolCalls) : FirstToolCalls[k].function.name = r.name

\* a follow-up response asked for a tool and the query ended after two tool calls
C5_Witness ==
    /\ InQuery /\ pc = "await_question"
    /\ Len(ToolInvocations) = 2 /\ Len(ModelCalls) = 3
    /\ \E e \in Range(events) :
           e.ev = "settle" /\ e.ok /\ IsFollowUp(e.req) /\ RequestsTool(e.res)

\* ---------------------------------------------------------------------- C6
OneGoodToolCall ==
    /\ HasChoice
    /\ Len(FirstToolCalls) = 1
    /\ FirstToolCalls[1].type = "function"
    /\ ParsesOK(FirstToolCalls[1])
    /\ \E e \in Range(events) : e.ev = "settle" /\ e.req.op = "callTool" /\ e.ok

\* C6: after a first response with exactly one tool call whose arguments
\* parse and whose invocation succeeds, the conversation is the user message,
\* the assistant message with the tool call, and a tool message carrying the
\* id of the call and the name of the tool.
C6_SingleToolCallConversation ==
    OneGoodToolCall =>
        /\ Len(messages) = 3
        /\ messages[1] = [role |-> "user", content |-> message]
        /\ messages[2] = choice.message
        /\ messages[2].role = "assistant"
        /\ messages[3].role = "tool"
        /\ messages[3].tool_call_id = FirstToolCalls[1].id
        /\ messages[3].name = FirstToolCalls[1].function.name

C6_Witness == OneGoodToolCall /\ pc = "await_question" /\ client = "part_000"

\* ---------------------------------------------------------------------- C7
TextOnlyResponse ==
    /\ HasChoice
    /\ Truthy(choice.message, "content")
    /\ FirstToolCalls = <<>>

\* C7: when the first response has text and no tool call, the query returns
\* that text and nothing else, after one model call and no tool invocation.
C7_TextOnlyVerbatim ==
    TextOnlyResponse =>
        /\ pc = "await_question"
        /\ Len(console) = 1
        /\ Returned = choice.message.content
        /\ Len(ModelCalls) = 1
        /\ ToolInvocations = <<>>

C7_Witness == TextOnlyResponse /\ Returned = Hello /\ client = "part_000"

\* ---------------------------------------------------------------------- C8
\* the invocations the for loop makes when no request fails, in order
RECURSIVE ExpectedInvocations(_)
ExpectedInvocations(tcs) ==
    IF tcs = <<>> THEN <<>>
    ELSE IF Head(tcs).type # "function" THEN ExpectedInvocations(Tail(tcs))
    ELSE IF ~ParsesOK(Head(tcs)) THEN <<>>
    ELSE <<ReqCallTool(Head(tcs).function.name,
                       JSON_parse(ArgumentsText(Head(tcs))).value)>>
         \o ExpectedInvocations(Tail(tcs))
IsPrefix(a, b) == Len(a) <= Len(b) /\ a = SubSeq(b, 1, Len(a))

\* C8: in a query, a request is issued only when the request before it has
\* settled; tools are invoked in the order of the tool calls; and a tool is
\* invoked only after the first response, after the follow-up call of the
\* tool call before it, or after the failure of that tool call.
C8_OneAtATimeInOrder ==
    InQuery =>
        /\ Cardinality({r \in pending : IsQueryRequest(r)}) <= 1
        /\ \A p \in 1..(Len(events) - 1) :
               (events[p].ev = "issue" /\ IsQueryRequest(events[p].req)) =>
                   events[p + 1].ev = "settle" /\ events[p + 1].req = events[p].req
        /\ IsPrefix(ToolInvocations, ExpectedInvocations(FirstToolCalls))
        /\ \A p \in 2..Len(events) :
               (events[p].ev = "issue" /\ events[p].req.op = "callTool") =>
                   /\ events[p - 1].ev = "settle"
                   /\ \/ events[p - 1].req.op = "model"
                      \/ events[p - 1].req.op = "callTool" /\ ~events[p - 1].ok

C8_Witness ==
    /\ InQuery /\ pc = "await_tool"
    /\ Len(ToolInvocations) = 2
    /\ ToolInvocations[1] # ToolInvocations[2]
    /\ Len(ModelCalls) = 2

\* ---------------------------------------------------------------------- C9
\* C9: a line that is quit in any letter casing ends the loop with no model
\* call and no tool call; cleanup calls close on the MCP client, and the
\* process exits only after close has settled.
C9_QuitEndsLoopAndCleansUp ==
    (linesRead > 0 /\ ToLowerCase(message) = Line_quit) =>
        /\ pc \in {"await_close", "exited"}
        /\ ModelCalls = <<>> /\ ToolInvocations = <<>>
        /\ events[1] = Issue(ReqClose)
        /\ (pc = "await_close" => events = <<Issue(ReqClose)>> /\ ~exited)
        /\ (pc = "exited" =>
               /\ Len(events) = 2
               /\ events[2].ev = "settle" /\ events[2].req = ReqClose
               /\ (events[2].ok => exitCode = 0))

C9_Witness ==
    /\ message = Line_Quit /\ linesRead = 2
    /\ exited /\ exitCode = 0 /\ client = "part_000"
    /\ events = <<Issue(ReqClose), Settle(ReqClose, TRUE, Done)>>

\* --------------------------------------------------------------------- C10
Object_x1 == JSONObject(<<[k |-> <<"x">>, v |-> JSONNumber(<<"1">>)]>>)

\* C10: in part_000 a line tool:<name> [json-args] invokes that tool with
\* the parsed arguments and calls no model; when the call has settled the
\* loop prompts for the next line.
C10_DirectCallBypassesModel ==
    (linesRead > 0 /\ client = "part_000" /\ StartsWith(message, Prefix_tool)) =>
        /\ pc \in {"await_direct", "await_question"}
        /\ ModelCalls = <<>>
        /\ Len(ToolInvocations) = 1
        /\ events[1] = Issue(ToolInvocations[1])
        /\ (message = Line_tool_echo =>
               ToolInvocations[1] = [op |-> "callTool", name |-> Echo,
                                     arguments |-> Object_x1])
        /\ (message = Line_tool_add => ToolInvocations[1].name = Add)
        /\ (message = Line_tool_bad => ToolInvocations[1].name = Add)
        /\ (Len(events) = 2 <=> pc = "await_question")
        /\ (pc = "await_question" => pending = {ReqQuestion} /\ Len(console) = 1)

C10_Witness ==
    /\ client = "part_000" /\ message = Line_tool_echo
    /\ pc = "await_question" /\ Len(events) = 2 /\ events[2].ok

\* ===================================================== the server, as observed
InCall == spc \in {"delay", "await_fetch", "retry_wait", "await_json"}
\* the fetch that is pending follows a response of status 429
RetryIssued ==
    /\ spc = "await_fetch"
    /\ "status" \in DOMAIN nwsResponse
    /\ nwsResponse.status = 429
\* the seconds the Retry-After header of resp gives, 5 without the header
SecondsAsked(resp) ==
    IF "Retry-After" \notin DOMAIN resp.headers THEN 5
    ELSE IF resp.headers["Retry-After"] = HttpDate THEN 2
    ELSE parseInt(resp.headers["Retry-After"]).value
\* the last step was the catch block of makeNWSRequest
RequestFailed ==
    /\ stderr # <<>>
    /\ Len(stderr[1]) >= 2
    /\ stderr[1][1] = "[ERROR] "
    /\ stderr[1][2] = "Error requesting the NWS API: "
\* the request last received was answered by its handler after makeNWSRequest
AnsweredAfterRequest ==
    /\ spc = "idle"
    /\ stage # "none"
    /\ reply # NoReply
    /\ reply.request = request
IsTextResult(result) ==
    /\ "content" \in DOMAIN result
    /\ Len(result.content) = 1
    /\ result.content[1].type = "text"
HandlerFailedText(result) ==
    /\ IsTextResult(result)
    /\ StartsWith(result.content[1].text, <<"Error while executing tool: ">>)

\* --------------------------------------------------------------------- C11
\* C11: a fetch issued after a response of status 429 is issued at least the
\* seconds of the Retry-After header of that response (5 without the header)
\* after it, to the same URL; and when a retried request succeeds, the call
\* returns the data of that response.
C11_RetryAfterHonoured ==
    /\ RetryIssued =>
        /\ lastFetch.waited \div MsPerSecond >= SecondsAsked(nwsResponse)
        /\ lastFetch.url = nwsResponse.url
    /\ (spc = "idle" /\ stage # "none" /\ "body" \in DOMAIN nwsResponse /\ fetches > 1) =>
        data = nwsResponse.body

\* --------------------------------------------------------------------- C12
\* C12: while the upstream answers 429 to every request a call of
\* makeNWSRequest never returns; under an upstream that gives 429 a finite
\* number of times every call returns, so that the handler that made it (one
\* call for get-alerts, two in a row for get-forecast) reaches its answer or
\* the process has ended; and what a call returned is data or null.
C12_RetriesUnbounded ==
    /\ [][(upstream.mode = "always" /\ InCall) => ~(spc' = "idle" \/ stage' # stage)]_vars
    /\ (InCall /\ upstream.mode = "budget") ~> (spc = "idle" \/ exited)
    /\ []((spc = "idle" /\ stage # "none") => data # Undefined)
\* more fetches than the bound on retries, and the call still goes on
C12_Witness ==
    /\ upstream.mode = "always"
    /\ fetches > MaxRetries
    /\ spc = "retry_wait"

\* --------------------------------------------------------------------- C13
FailedTextOf(req) ==
    IF req.name = Tool_alerts THEN AlertsFailedText
    ELSE IF stage = "points"
    THEN PointsFailedText(req.arguments.latitude, req.arguments.longitude)
    ELSE ForecastFailedText
\* C13: after a status that is neither 429 nor a success, a network failure
\* or a failure to parse the body, makeNWSRequest has returned null; and
\* get-alerts and get-forecast answer every null with a text result saying
\* that the data could not be retrieved, never with an error.
C13_FailuresBecomeText ==
    AnsweredAfterRequest =>
        /\ (RequestFailed \/ ("ok" \in DOMAIN nwsResponse /\ ~nwsResponse.ok)) => IsNull(data)
        /\ IsNull(data) => reply.result = TextResult(FailedTextOf(request))
        /\ IsTextResult(reply.result)
C13_Witness ==
    /\ AnsweredAfterRequest
    /\ stage = "forecast"
    /\ RequestFailed
    /\ "ok" \in DOMAIN nwsResponse /\ nwsResponse.status = 500
    /\ reply.result = TextResult(ForecastFailedText)

\* --------------------------------------------------------------------- C14
\* C14: every request whose arguments are valid is answered with a text
\* result, also when its handler threw; the step that answers a request
\* leaves the server running and ready for the next request; and the process
\* ends only by a failed start or an uncaught exception outside a handler.
C14_HandlerFailuresContained ==
    /\ []((reply # NoReply /\ ValidArguments(reply.request)) => IsTextResult(reply.result))
    /\ [][served' # served => (spc' = "idle" /\ ~exited')]_vars
    /\ [](exited => (lastFailure = "uncaughtException" \/ request = NoRequest))
\* after the failure of a handler the server is at work on the next request
C14_Witness ==
    /\ reply # NoReply
    /\ HandlerFailedText(reply.result)
    /\ reply.request.name = Tool_forecast
    /\ request.name = Tool_apps
    /\ spc = "await_apps"

\* --------------------------------------------------------------------- C18
\* C18: once the process has handled an uncaught exception or an unhandled
\* rejection, the failure is logged and the process has exited with a
\* non-zero code.
C18_ProcessFailuresTerminate ==
    lastFailure # "none" =>
        /\ stderr # <<>> /\ stderr[1][1] = "[ERROR] "
        /\ exited
        /\ exitCode # 0

\* --------------------------------------------------------------------- C20
OutsideBox(arguments) ==
    \/ arguments.latitude < MinLatitude
    \/ arguments.latitude > MaxLatitude
    \/ arguments.longitude < MinLongitude
    \/ arguments.longitude > MaxLongitude
\* C20: a get-forecast request with a latitude or a longitude outside the box
\* is answered by the validation: its handler does not run and no request is
\* made to the upstream for it.
C20_OutOfBoxRejected ==
    ("name" \in DOMAIN request /\ request.name = Tool_forecast
     /\ OutsideBox(request.arguments)) =>
        /\ spc \in {"idle", "exited"}
        /\ stage = "none"
        /\ fetches = 0
        /\ lastFetch = NoFetch
        /\ reply = [request |-> request, result |-> InvalidParams]
C20_Witness ==
    /\ "name" \in DOMAIN request /\ request.name = Tool_forecast
    /\ request.arguments.latitude = MaxLatitude
    /\ request.arguments.longitude = MaxLongitude + 1
    /\ reply = [request |-> request, result |-> InvalidParams]
    /\ served = 2

\* ===================================================== the clients, as observed
Flags == {Flag_ws, Flag_websocket, Flag_sse}
UsesScript == Len(argv) >= 1 /\ argv[1] \notin Flags
MissingURL == Len(argv) = 1 /\ argv[1] \in Flags
UnsupportedScript ==
    UsesScript /\ ~EndsWith(argv[1], Ext_js) /\ ~EndsWith(argv[1], Ext_py)
ListToolsFailed ==
    \E k \in 1..Len(events) : events[k] = Settle(ReqListTools, FALSE, ErrMessage)
CloseAttempts == SelectEvents(events, "issue", "close")
CloseSettled == SelectEvents(events, "settle", "close")

\* --------------------------------------------------------------------- C15
\* C15: while listTools is awaited the connection is established, and a
\* failed connection ends startup through the error handling of main.
C15_ListToolsAfterConnect ==
    /\ ReqListTools \in pending => connectState = "connected"
    /\ connectState = "failed" => (exited /\ ~unhandled)

\* --------------------------------------------------------------------- C16
\* C16: a run that ends on a failure of startup (no URL after --ws,
\* --websocket or --sse, a script that is neither .js nor .py, a failed
\* connection, a failed listing of the tools) ends with a non-zero exit code.
C16_StartupFailureExitsNonZero ==
    (exited /\ linesRead = 0
     /\ (MissingURL \/ UnsupportedScript \/ connectState = "failed" \/ ListToolsFailed))
        => exitCode # 0

\* --------------------------------------------------------------------- C17
\* C17: when the process has exited, cleanup has called mcp.close() exactly
\* once and that call has settled.
C17_CleanupOnceBeforeExit ==
    exited => (Len(CloseAttempts) = 1 /\ Len(CloseSettled) = 1)

\* --------------------------------------------------------------------- C19
\* C19: after main has handled a script path: a path ending in .py has the
\* stdio transport with the Python interpreter, one ending in .js has it with
\* the Node runtime, and any other path has no transport and no connect or
\* listTools request; and a transport once constructed is never replaced.
C19_ScriptTypeDecidesTransport ==
    /\ []((pc # "main" /\ UsesScript) =>
            IF EndsWith(argv[1], Ext_py)
            THEN transport = "stdio" /\ command = "python3"
            ELSE IF EndsWith(argv[1], Ext_js)
            THEN transport = "stdio" /\ command = "process.execPath"
            ELSE /\ transport = "null"
                 /\ command = "none"
                 /\ connectState = "none"
                 /\ SelectEvents(events, "issue", "connect") = <<>>
                 /\ SelectEvents(events, "issue", "listTools") = <<>>)
    /\ [][transport # "null" => transport' = transport]_vars
C19_Witness ==
    /\ client = "part_000"
    /\ argv = <<Script_txt>>
    /\ exited
    /\ exitCode = 1

\* --------------------------------------------------------------------- C21
\* the tool list of a listTools request that resolved, as the server sent it
IsListing(e) == e.ev = "settle" /\ e.req = ReqListTools /\ e.ok
\* descriptor d carries the name, the description and the input schema of tool t
Describes(d, t) ==
    /\ d.type = "function"
    /\ d.function.name = t.name
    /\ d.function.parameters = t.inputSchema
    /\ ("description" \in DOMAIN d.function) = ("description" \in DOMAIN t)
    /\ ("description" \in DOMAIN t => d.function.description = t.description)
\* C21: once listTools has resolved with a list of tools, the catalog has one
\* descriptor for each tool of the list, in the order of the list; each has
\* the name of its tool unchanged, the description of the tool (or none when
\* the tool has none) and the input schema of the tool as its parameters.
C21_CatalogMirrorsToolList ==
    \A e \in Range(events) :
        IsListing(e) =>
            /\ Len(tools) = Len(e.res)
            /\ \A k \in 1..Len(e.res) : Describes(tools[k], e.res[k])
C21_Witness ==
    /\ client = "part_000"
    /\ pc = "await_question"
    /\ \E e \in Range(events) : IsListing(e) /\ Len(e.res) = 2
    /\ tools[1].function.name = Echo
    /\ tools[2].function.name = Add
    /\ "description" \notin DOMAIN tools[2].function

\* --------------------------------------------------------------------- C22
UserMessage == [role |-> "user", content |-> message]
\* msg is a message this query made: the assistant message of its first
\* response, or the tool message of one of the tool calls of that response
MadeByThisQuery(msg) ==
    /\ HasChoice
    /\ \/ msg = choice.message
       \/ /\ msg.role = "tool"
          /\ \E k \in 1..Len(FirstToolCalls) : FirstToolCalls[k].id = msg.tool_call_id
\* C22: a query begins with a conversation that holds its own user message
\* and nothing else, with an empty output buffer, whatever the lines handled
\* before it were; every conversation it sends to the provider begins with
\* that user message and holds, after it, only messages made from the answers
\* to this query; and the step that begins a query after an earlier query
\* keeps nothing of the conversation the earlier query left.
C22_NoStateAcrossQueries ==
    /\ [](InQuery =>
            /\ Len(ModelCalls) >= 1
            /\ ModelCalls[1].messages = <<UserMessage>>
            /\ \A c \in Range(ModelCalls) :
                   /\ c.messages[1] = UserMessage
                   /\ \A p \in 2..Len(c.messages) : MadeByThisQuery(c.messages[p])
            /\ (pc = "await_first" =>
                   /\ messages = <<UserMessage>>
                   /\ finalText = <<>>
                   /\ choice = NoChoice
                   /\ events = <<Issue(ModelCalls[1])>>))
    /\ [][(Len(messages) > 1 /\ pc' = "await_first") => messages' = <<UserMessage'>>]_vars
\* the second line is a query, at its follow-up model call
C22_Witness ==
    /\ client = "part_000"
    /\ linesRead = 2
    /\ message = Line_hi
    /\ pc = "await_followup"
    /\ Len(ModelCalls) = 2
    /\ Len(ModelCalls[2].messages) = 3

\* --------------------------------------------------------------------- C23
NoArguments == argv = <<>> /\ pc # "main"
\* C23: a client started without arguments prints the usage.  With
\* MCP_SERVER_URL set it constructs the WebSocket transport for that URL and
\* connects, and when the tools are listed the chat loop prompts.  With
\* MCP_SERVER_URL not set it constructs no transport, issues no connect,
\* listTools, model or tool request, reads no line, and goes to cleanup and
\* exit.
C23_NoArgumentsUsesEnvironmentURL ==
    NoArguments =>
        /\ (linesRead = 0 => console # <<>> /\ console[1] = <<"usage">>)
        /\ IF MCP_SERVER_URL # <<>>
           THEN /\ transport = "websocket"
                /\ transportUrl = MCP_SERVER_URL
                /\ (linesRead = 0 => events # <<>> /\ events[1] = Issue(ReqConnect))
                /\ ((linesRead = 0 /\ ~exited /\ \E e \in Range(events) : IsListing(e))
                       => pc = "await_question" /\ pending = {ReqQuestion})
           ELSE /\ transport = "null"
                /\ transportUrl = <<>>
                /\ connectState = "none"
                /\ linesRead = 0
                /\ pc \in {"await_close", "exited"}
                /\ events # <<>> /\ events[1] = Issue(ReqClose)
                /\ \A e \in Range(events) : e.req = ReqClose
\* the chat loop prompts after a start from the URL of the environment
C23_Witness ==
    /\ argv = <<>>
    /\ MCP_SERVER_URL = GoodURL
    /\ client = "part_000"
    /\ transport = "websocket"
    /\ connectState = "connected"
    /\ pc = "await_question"
    /\ linesRead = 0

\* --------------------------------------------------------------------- C24
\* the connect step is over: main is past its await of listTools
CatalogStored == pc \notin {"main", "await_listTools"}
\* C24: once the connect step has stored the catalog no step changes it; no
\* listTools request is issued after the one of the connect step; and the
\* first model call of every query carries the catalog as it is stored.
C24_CatalogImmutable ==
    /\ [][CatalogStored => tools' = tools]_vars
    /\ [](Len(SelectEvents(events, "issue", "listTools")) <= 1)
    /\ [](linesRead > 0 => SelectEvents(events, "issue", "listTools") = <<>>)
    /\ [](InQuery =>
            /\ Len(ModelCalls) >= 1
            /\ "tools" \in DOMAIN ModelCalls[1]
            /\ ModelCalls[1].tools = tools)
\* the second line is a query, and its first model call has the two tools
C24_Witness ==
    /\ client = "part_000"
    /\ linesRead = 2
    /\ pc = "await_first"
    /\ Len(tools) = 2
    /\ pending = {ReqModelWithTools(<<UserMessage>>, tools)}

\* --------------------------------------------------------------------- C25
\* the free text of a response, as a list of no line or one line
TextOf(res) ==
    IF Len(res.choices) > 0 /\ Truthy(res.choices[1].message, "content")
    THEN <<res.choices[1].message.content>>
    ELSE <<>>
\* The lines the answers of a query call for, in the order of the answers:
\* the text of the first response; for each tool invoked its call marker or,
\* when the invocation failed, its error line; then the text of the follow-up
\* response or, when that call failed, the error line of the tool.
RECURSIVE ExpectedLines(_, _)
ExpectedLines(evs, toolName) ==
    IF evs = <<>> THEN <<>>
    ELSE LET e == Head(evs)
         IN IF e.ev = "issue"
            THEN ExpectedLines(Tail(evs),
                     IF e.req.op = "callTool" THEN e.req.name ELSE toolName)
            ELSE (IF e.req.op = "model"
                  THEN IF e.ok THEN TextOf(e.res)
                       ELSE IF IsFollowUp(e.req) THEN <<ErrorLine(toolName, e.res)>>
                       ELSE <<>>
                  ELSE IF e.req.op = "callTool"
                  THEN IF e.ok THEN <<CallMarker(e.req.name, e.req.arguments)>>
                       ELSE <<ErrorLine(e.req.name, e.res)>>
                  ELSE <<>>)
                 \o ExpectedLines(Tail(evs), toolName)
\* processQuery has returned to chatLoop, which printed what it returned
QueryReturned == InQuery /\ pc = "await_question"
\* the outer catch block of processQuery ran: the first model call failed, or
\* the arguments of a tool call did not parse
CaughtByOuterCatch ==
    \/ ParseFailedAt
    \/ \E e \in Range(events) :
           e.ev = "settle" /\ e.req.op = "model" /\ ~IsFollowUp(e.req) /\ ~e.ok
\* the first response arrived without a choice
NoChoices ==
    \E e \in Range(events) :
        /\ e.ev = "settle" /\ e.req.op = "model" /\ ~IsFollowUp(e.req) /\ e.ok
        /\ Len(e.res.choices) = 0
ResultIsJoinedBuffer ==
    /\ finalText = ExpectedLines(events, <<>>)
    /\ Returned = Join(finalText, NL)
    /\ (NoChoices => Returned = <<>> /\ ToolInvocations = <<>> /\ Len(ModelCalls) = 1)
IsToolMessage(msg) == msg.role = "tool"
IsToolResult(e) == e.ev = "settle" /\ e.req.op = "callTool" /\ e.ok
\* The content of a tool message as a typed value.  part_000 stores a string;
\* index_ts stores result.content, which carries its type in this model.
ContentOf(msg) ==
    IF client = "part_000" THEN [t |-> "string", v |-> msg.content] ELSE msg.content
\* C26: the tool messages of the conversation are, in order, those of the
\* tool results received, and the content of each is a string: the texts of
\* the segments joined with newlines when the result holds a list, the string
\* itself when it holds a string, its JSON text otherwise.
C26_ToolContentNormalized ==
    InQuery =>
        LET toolMessages == SelectSeq(messages, IsToolMessage)
            toolResults == SelectSeq(events, IsToolResult)
        IN /\ Len(toolMessages) = Len(toolResults)
           /\ \A k \in 1..Len(toolMessages) :
                  /\ ContentOf(toolMessages[k]).t = "string"
                  /\ ContentOf(toolMessages[k]).v
                         = NormalizeContent(toolResults[k].res.content)

\* --------------------------------------------------------------------- C27
\* logger.debug of part_000, lines 28-32: the guard reads the constant
client_logger_debug(msg) ==
    IF LOG_LEVEL = "debug" THEN << <<"[DEBUG] ">> \o msg >> ELSE <<>>
\* what logger.debug has written for the query in progress: processQuery
\* logs the request at debug level before its first await (lines 240-244)
DebugLines ==
    IF client = "part_000" /\ InQuery
    THEN client_logger_debug(<<"sending the request to the model">>)
    ELSE <<>>
AnnouncedLevel == envLogLevel
\* C27: after the command debug the debug messages of a later query are
\* written, after the command info they are not, and neither command issues
\* a request.
C27_CommandsChangeLogLevel ==
    (client = "part_000" /\ scenario = "chat" /\ linesRead > 0) =>
        /\ (InQuery /\ AnnouncedLevel = "debug") => DebugLines # <<>>
        /\ (InQuery /\ AnnouncedLevel = "info") => DebugLines = <<>>
        /\ (pc = "await_question" /\ (IsDebug(message) \/ IsInfo(message)))
              => events = <<>>

\* --------------------------------------------------------------------- C28
\* the tool invocation in progress has just failed
ToolCallFails ==
    /\ pc = "await_tool"
    /\ Len(events') > Len(events)
    /\ events'[Len(events) + 1].ev = "settle"
    /\ ~events'[Len(events) + 1].ok
FailedInvocation(e) == e.ev = "settle" /\ e.req.op = "callTool" /\ ~e.ok
ConversationExtends ==
    InQuery =>
        /\ \A i \in 1..(Len(ModelCalls) - 1) :
               /\ IsPrefix(ModelCalls[i].messages, ModelCalls[i + 1].messages)
               /\ Len(ModelCalls[i].messages) < Len(ModelCalls[i + 1].messages)
        /\ ModelCalls # <<>> => IsPrefix(ModelCalls[Len(ModelCalls)].messages, messages)
        /\ Len(messages) = 1 + 2 * Len(SelectSeq(events, IsToolResult))
\* C28: while a query is handled the conversation only grows at its end;
\* the message list of each model call extends that of the model call before
\* it; a tool invocation that fails leaves the conversation as it was, so
\* the conversation holds two messages for each tool result and no others
\* besides the user's.
C28_ConversationAppendOnly ==
    /\ []ConversationExtends
    /\ [][(InQuery /\ linesRead' = linesRead) => IsPrefix(messages, messages')]_vars
    /\ [][ToolCallFails => messages' = messages]_vars
C28_Witness ==
    /\ client = "part_000" /\ InQuery
    /\ Len(ModelCalls) >= 2
    /\ \E k \in 1..Len(events) : FailedInvocation(events[k])

\* --------------------------------------------------------------------- C29
\* the line being handled is a direct tool call whose argument text is no JSON
DirectWithBadArguments ==
    /\ client = "part_000" /\ linesRead > 0
    /\ ~IsQuit(message) /\ ~IsDebug(message) /\ ~IsInfo(message) /\ IsDirect(message)
    /\ Len(ToolParts(message)) > 1
    /\ ~JSON_parse(Join(Tail(ToolParts(message)), <<" ">>)).ok
DirectCallSettled == pc = "await_question" /\ Len(events) = 2
\* C29: a direct tool call whose argument text does not parse invokes the
\* named tool with an empty object and prints nothing about the arguments;
\* when the invocation fails, the failure is printed as one line of text and
\* the client asks for the next line.
C29_BadArgumentsStillInvoke ==
    DirectWithBadArguments =>
        /\ events # <<>>
        /\ events[1] = Issue(ReqCallTool(DirectToolName(message), JSONObject(<<>>)))
        /\ ~exited
        /\ pc \in {"await_direct", "await_question"}
        /\ pc = "await_direct" => console = <<>>
        /\ DirectCallSettled =>
              /\ pending = {ReqQuestion}
              /\ Len(console) = 1
              /\ ~events[2].ok =>
                    console[1] = NL \o DirectFailText(DirectToolName(message),
                                                     events[2].res)
C29_Witness ==
    /\ DirectWithBadArguments /\ DirectCallSettled
    /\ ~events[2].ok
    /\ linesRead < MaxLines

\* --------------------------------------------------------------------- C30
\* the handler calls makeNWSRequest (the retries within it are not calls)
RequestBegins == spc # "delay" /\ spc' = "delay" /\ fetches' = 0
InForecastCall == InCall /\ request.name = Tool_forecast
\* the forecast lookup is in progress: the points lookup gave its URL
ForecastAfterPoints ==
    (InCall /\ stage = "forecast") =>
        /\ request.name = Tool_forecast
        /\ ~IsNull(data)
        /\ HasForecastURL(data)
        /\ url = data.properties.forecast
        /\ url # PointsURL(request.arguments.latitude, request.arguments.longitude)
PointsBeforeForecast ==
    (InCall /\ stage = "points") =>
        /\ request.name = Tool_forecast
        /\ data = Undefined
        /\ url = PointsURL(request.arguments.latitude, request.arguments.longitude)
\* C30: a get-forecast call begins with the points lookup; the only other
\* request it makes is the forecast lookup, made when the points lookup has
\* returned data that is not null and has a forecast URL, and made for that
\* URL; a points lookup that returns anything else ends the call with a text
\* result; and nothing is requested after the forecast lookup.
C30_PointsThenForecast ==
    /\ [](ForecastAfterPoints /\ PointsBeforeForecast)
    /\ [][(RequestBegins /\ request'.name = Tool_forecast) =>
             \/ spc = "idle" /\ stage' = "points"
             \/ /\ InForecastCall /\ stage = "points" /\ stage' = "forecast"
                /\ request' = request]_vars
    /\ [][(InForecastCall /\ stage = "points" /\ data' # Undefined
            /\ (IsNull(data') \/ ~HasForecastURL(data'))) =>
             /\ spc' = "idle" /\ stage' = "points"
             /\ reply'.request = request
             /\ IsTextResult(reply'.result)]_vars
    /\ [][(InForecastCall /\ stage = "forecast" /\ ~exited') =>
             \/ InForecastCall' /\ stage' = "forecast" /\ url' = url
             \/ spc' = "idle" /\ reply'.request = request]_vars
C30_Witness ==
    /\ InForecastCall /\ stage = "forecast" /\ spc = "await_json"
    /\ served > 0
C30_WitnessPointsFailed ==
    /\ spc = "idle" /\ stage = "points"
    /\ "request" \in DOMAIN reply /\ reply.request = request
    /\ request.name = Tool_forecast
    /\ ~IsNull(data) /\ ~HasForecastURL(data)

====
